---- MODULE Spec2Model ----
(***************************************************************************)
(* A model of the Hanzi application (class Hanzi, src/unnamed/part_000):   *)
(* scene coordination, the Pinyin composer, the two paged datasets that    *)
(* share one grid, and the spawned-entity manager with its level files.    *)
(*                                                                         *)
(* Text is a sequence of one-character strings; a JavaScript number is a   *)
(* record [k, v] with k one of "num", "nan", "undef", "null".              *)
(* Lengths that the source gives as fractions are counted in millionths:   *)
(* HANZI_MODEL_SCALE = 0.0001*8 is 800 and SCALE_STEP = 0.025/1000 is 25.  *)
(***************************************************************************)
EXTENDS Integers, Sequences, FiniteSets, TLC

VARIABLES
    scenes,            \* this.scenes: <<name, widgets>> pairs, empty before init()
    currentScene,      \* this.currentScene
    enabled,           \* the widgets whose last call was enable() (or none yet)
    sceneOps,          \* the disable()/enable() calls of the last switchScene
    pinyinInfoText,    \* this.pinyinInfoText, the composer's buffer
    pinyinMenuHl,      \* highlight state of this.pinyinMenu
    pinyinToneHl,      \* highlight state of this.pinyinTone
    pinyinInfoPanel,   \* the text shown by this.pinyinInfoPanel
    lastPutc,          \* what the last putc did: its key, its error flag, its playSound argument and calls
    playing,           \* clips started by playSound whose stop timer has not fired
    characters,        \* this.characters, the working list of the Common dataset
    radicals,          \* this.radicals, the working list of the Radicals dataset
    curPageNum,        \* this.commonHanziMenu.curPageNum
    radicalPageNum,    \* this.radicalPageNum
    hanziPageNum,      \* this.hanziPageNum
    commonHanziCells,  \* the page shown by this.commonHanziMenu (before reshape)
    commonHanziHl,     \* highlight state of this.commonHanziMenu
    hanziInfoPanel,    \* the character whose metadata this.hanziInfoPanel shows
    prompts,           \* user.prompt dialogs that are open
    trip,              \* history: for each dataset, how far a leave / visit the other / return trip has got
    prefabs,           \* the keys of this.prefabs
    dimensions,        \* the keys of this.dimensions
    fetches,           \* how many times getGltf was called for each character
    tasks,             \* the spawnItem calls that await loadGltf, in call order
    boxes,             \* every placement box created so far, with its visual model; box i belongs to actor i
    spawnedHanzi,      \* the keys of this.spawnedHanzi (box ids)
    highlightedActor,  \* this.highlightedActor, 0 for null or undefined
    numberInputText,   \* the scale whose quotient by HANZI_MODEL_SCALE this.numberInput shows
    levels,            \* the files under ./public/levels, as [path, data] records
    pendingIO,         \* fs.writeFile and fetchJSON calls that have not completed
    lastMsg,           \* the text of the last message prompt ("Saved", "Failed", "No such file")
    clickOps,          \* the styling and selection steps of the last entity click, in order
    rt                 \* history: how far a save / clear / load round trip has got

sceneVars == <<scenes, currentScene, enabled, sceneOps>>
pinyinVars == <<pinyinInfoText, pinyinMenuHl, pinyinToneHl, pinyinInfoPanel, lastPutc, playing>>
pagerVars == <<characters, radicals, curPageNum, radicalPageNum, hanziPageNum, commonHanziCells>>
gridVars == <<commonHanziHl, hanziInfoPanel>>
entVars == <<prefabs, dimensions, fetches, tasks, boxes, spawnedHanzi, highlightedActor,
             numberInputText, levels, pendingIO, lastMsg, clickOps, rt>>
vars == <<sceneVars, pinyinVars, pagerVars, gridVars, prompts, trip, entVars>>

-----------------------------------------------------------------------------
(* Bounds of the model *)

\* columns of the Pinyin keyboard (PINYIN_MENU_DIMENSIONS.y is 12 in the source)
KeyCols == 3
\* rows and columns of the Hanzi grid (COMMON_HANZI_MENU_DIMENSIONS is 8 x 8 in the source)
MenuRows == 2
MenuCols == 2
\* clips that may be playing at once before Enter is held back
MaxClips == 2
\* prompts that may be open at once
MaxPrompts == 1
\* entries of the Common and of the Radicals dataset
NumCharacters == 9
NumRadicals == 5
\* placement boxes that may ever be created
MaxEntities == 2
\* positions a grabbed box may be dropped at, besides the default one
MaxPos == 1
\* increase / decrease steps away from HANZI_MODEL_SCALE
MaxScaleSteps == 1
\* fs.writeFile and fetchJSON calls that may be pending at once
MaxIO == 1
\* fetches of one character's model that are counted
MaxFetches == 2
\* cells of the Hanzi grid that are clicked (the first ones in row-major order)
MaxCells == 1

-----------------------------------------------------------------------------
(* JavaScript values *)

Num(n) == [k |-> "num", v |-> n]
NaN == [k |-> "nan", v |-> 0]
Undefined == [k |-> "undef", v |-> 0]
Null == [k |-> "null", v |-> 0]
IsNum(a) == a.k = "num"

Users == {"owner", "guest"}
OWNER_NAME == "owner"
checkUserName(user, name) == user = name

RECURSIVE SeqToSet(_)
SeqToSet(s) == IF s = <<>> THEN {} ELSE {Head(s)} \cup SeqToSet(Tail(s))

RECURSIVE Concat(_)
Concat(ss) == IF ss = <<>> THEN <<>> ELSE Head(ss) \o Concat(Tail(ss))

IsPrefix(p, s) == Len(p) <= Len(s) /\ SubSeq(s, 1, Len(p)) = p

\* String.prototype.includes
Includes(s, q) == \E i \in 0..(Len(s) - Len(q)) : SubSeq(s, i + 1, i + Len(q)) = q

\* Array.prototype.slice(from, to) with 0 <= from, on a 1-based sequence
Slice(s, from, to) ==
    LET a == IF from > Len(s) THEN Len(s) ELSE from
        b == IF to > Len(s) THEN Len(s) ELSE to
    IN  IF b <= a THEN <<>> ELSE SubSeq(s, a + 1, b)

\* parseInt(text): the leading decimal digits, NaN when there are none
Digits == <<"0", "1", "2", "3", "4", "5", "6", "7", "8", "9">>
DigitValue(d) == (CHOOSE i \in 1..Len(Digits) : Digits[i] = d) - 1
RECURSIVE ParseDigits(_, _)
ParseDigits(text, acc) ==
    IF text = <<>> \/ Head(text) \notin SeqToSet(Digits) THEN acc
    ELSE ParseDigits(Tail(text), 10 * acc + DigitValue(Head(text)))
ParseInt(text) ==
    IF text = <<>> \/ Head(text) \notin SeqToSet(Digits) THEN NaN ELSE Num(ParseDigits(text, 0))

-----------------------------------------------------------------------------
(* PinyinDatabase (./database): a small syllable table *)

UUml == "ü"
Syllables == { <<"a">>, <<"a", "i">>, <<"z", "h", "a">>, <<"z", "h", "i">>,
               <<"q", "i">>, <<"n", UUml>> }
Initials == << <<"z", "h">>, <<"q">>, <<"n">> >>
Finals == << <<"a">>, <<"i">>, <<UUml>>, <<"a", "i">> >>
Wholes == << <<"z", "h", "i">> >>

\* PinyinDatabase.find: is the text a prefix of some syllable
find(text) == \E s \in Syllables : IsPrefix(text, s)

\* ../public/json/sprite.json: the keys that have an audio segment
Sprite == { <<"a", "1">>, <<"a", "4">>, <<"a", "i", "4">>, <<"z", "h", "a", "1">>,
            <<"z", "h", "i">>, <<"z", "h", "i", "1">>, <<"q", "i", "1">>,
            <<"n", "v", "3">> }

\* ../public/json/sprite.json: sprite[key] is [start, duration] of the key's segment, two
\* texts of milliseconds
sprite ==
    [k \in Sprite |->
        CASE k = <<"a", "1">> -> << <<"0">>, <<"4", "0", "0">> >>
          [] k = <<"a", "4">> -> << <<"5", "0", "0">>, <<"4", "5", "0">> >>
          [] k = <<"a", "i", "4">> -> << <<"1", "0", "0", "0">>, <<"5", "0", "0">> >>
          [] k = <<"z", "h", "a", "1">> -> << <<"1", "5", "0", "0">>, <<"5", "5", "0">> >>
          [] k = <<"z", "h", "i">> -> << <<"2", "1", "0", "0">>, <<"3", "0", "0">> >>
          [] k = <<"z", "h", "i", "1">> -> << <<"2", "4", "0", "0">>, <<"6", "0", "0">> >>
          [] k = <<"q", "i", "1">> -> << <<"3", "0", "0", "0">>, <<"6", "5", "0">> >>
          [] OTHER -> << <<"3", "7", "0", "0">>, <<"7", "0", "0">> >>]

-----------------------------------------------------------------------------
(* GridMenu (./GUI/gridMenu): highlight state of a grid *)

NoCoord == <<-1, -1>>
NoHighlight == [highlighted |-> FALSE, coord |-> NoCoord]

\* GridMenu.highlight(coord, state?): state is "on" (true), "off" (false) or "toggle" (omitted)
Highlight(h, coord, state) ==
    IF state = "toggle"
    THEN [highlighted |-> ~(h.highlighted /\ h.coord = coord), coord |-> coord]
    ELSE [highlighted |-> (state = "on"), coord |-> coord]

\* GridMenu.getHighlightedIndex(coord) of a grid with col columns, row-major, 0-based
GetHighlightedIndex(coord, col) == coord[1] * col + coord[2]

-----------------------------------------------------------------------------
(* Scenes *)

SCENES == <<
    <<"main_menu", <<"mainMenu">> >>,
    <<"pinyin_menu", <<"pinyinMenu", "pinyinMenuControlStrip", "pinyinHead", "pinyinTone", "pinyinInfoPanel">> >>,
    <<"phonetics_table", <<"phoneticsTable">> >>,
    <<"radical_menu", <<"commonHanziMenu", "hanziInfoPanel", "commonHanziMenuControlStrip", "numberInput">> >>,
    <<"common_hanzi_menu", <<"commonHanziMenu", "hanziInfoPanel", "commonHanziMenuControlStrip", "numberInput">> >> >>

Widgets == UNION { SeqToSet(SCENES[i][2]) : i \in 1..Len(SCENES) }
SceneNames(sc) == { sc[i][1] : i \in 1..Len(sc) }
WidgetsOf(sc, name) == UNION { SeqToSet(sc[i][2]) : i \in { j \in 1..Len(sc) : sc[j][1] = name } }
DatasetScenes == {"radical_menu", "common_hanzi_menu"}
InDatasetScene == currentScene \in DatasetScenes

RECURSIVE DisableOpsOf(_, _)
DisableOpsOf(sc, scene) ==
    IF sc = <<>> THEN <<>>
    ELSE (IF Head(sc)[1] # scene
          THEN [i \in 1..Len(Head(sc)[2]) |-> <<"disable", Head(sc)[2][i]>>]
          ELSE <<>>) \o DisableOpsOf(Tail(sc), scene)

\* a plausible slip: the comparison with the target is inverted
RECURSIVE DisableOpsInverted(_, _)
DisableOpsInverted(sc, scene) ==
    IF sc = <<>> THEN <<>>
    ELSE (IF Head(sc)[1] = scene
          THEN [i \in 1..Len(Head(sc)[2]) |-> <<"disable", Head(sc)[2][i]>>]
          ELSE <<>>) \o DisableOpsInverted(Tail(sc), scene)

\* the disable() calls of switchScene: every widget of every scene other than the target
DisableOps(sc, scene) == DisableOpsOf(sc, scene)

\* tv of switchScene: the widgets of the last scene named `scene` that has any widget
RECURSIVE TargetWidgets(_, _)
TargetWidgets(sc, scene) ==
    IF sc = <<>> THEN <<>>
    ELSE LET e == sc[Len(sc)]
         IN  IF e[1] = scene /\ e[2] # <<>> THEN e[2]
             ELSE TargetWidgets(SubSeq(sc, 1, Len(sc) - 1), scene)

\* a plausible slip: enable inside the loop over the scenes instead of after it
RECURSIVE SwitchSceneOpsInline(_, _)
SwitchSceneOpsInline(sc, scene) ==
    IF sc = <<>> THEN <<>>
    ELSE [i \in 1..Len(Head(sc)[2]) |->
            <<IF Head(sc)[1] # scene THEN "disable" ELSE "enable", Head(sc)[2][i]>>]
         \o SwitchSceneOpsInline(Tail(sc), scene)

\* the disable() and enable() calls of switchScene, in call order
SwitchSceneOps(sc, scene) ==
    DisableOps(sc, scene)
    \o [i \in 1..Len(TargetWidgets(sc, scene)) |-> <<"enable", TargetWidgets(sc, scene)[i]>>]

RECURSIVE ApplyOps(_, _)
ApplyOps(en, ops) ==
    IF ops = <<>> THEN en
    ELSE ApplyOps(IF Head(ops)[1] = "enable" THEN en \cup {Head(ops)[2]} ELSE en \ {Head(ops)[2]},
                  Tail(ops))

\* the scene switchScene settles on (the default when nothing is current and the name is unknown)
SceneTarget(cur, sc, scene) ==
    IF cur = "" /\ scene \notin SceneNames(sc) THEN "main_menu" ELSE scene

\* switchScene, given the widgets enabled before it: the new current scene, its calls, the widgets enabled after
SwitchSceneResult(cur, sc, en, scene) ==
    IF cur = scene THEN [cur |-> cur, ops |-> <<>>, en |-> en]
    ELSE LET t == SceneTarget(cur, sc, scene)
             ops == SwitchSceneOps(sc, t)
         IN  [cur |-> t, ops |-> ops, en |-> ApplyOps(en, ops)]

switchScene(scene) ==
    LET r == SwitchSceneResult(currentScene, scenes, enabled, scene)
    IN  /\ currentScene' = r.cur
        /\ sceneOps' = r.ops
        /\ enabled' = r.en
        /\ UNCHANGED scenes

-----------------------------------------------------------------------------
(* The Pinyin composer *)

PINYIN_INFO_PLACE_HOLDER == <<"Awaiting Input">>
PINYIN_INFO_ERROR_MESSAGE == <<"No Such Syllable">>

BACKSPACE == <<"Backspace">>
CLEAR == <<"Clear">>
ENTER == <<"Enter">>

height(arr, width) == (Len(arr) \div width) + (IF Len(arr) % width # 0 THEN 1 ELSE 0)

breakDown(arr, width) ==
    LET h == height(arr, width)
        i == IF h >= 1 THEN h - 1 ELSE 0
    IN  [r \in 1..i |-> Slice(arr, (r - 1) * width, r * width)]
        \o << Slice(arr, i * width, Len(arr)) \o [j \in 1..(h * width - Len(arr)) |-> <<>>] >>

\* rl and dl of createPinyinMenu: the rows of the keyboard and its keys in row-major order
PinyinRows == breakDown(Initials, KeyCols) \o breakDown(Finals, KeyCols) \o breakDown(Wholes, KeyCols)
PinyinKeys == Concat(PinyinRows)
PinyinCoords == { <<x, y>> : x \in 0..(Len(PinyinRows) - 1), y \in 0..(KeyCols - 1) }

PINYIN_TONE_ITEMS == <<"1", "2", "3", "4">>
ToneCoords == { <<0, y>> : y \in 0..(Len(PINYIN_TONE_ITEMS) - 1) }

\* (n).toString() of a tone number 1..4
ToneToString(n) == <<PINYIN_TONE_ITEMS[n]>>

\* String.prototype.replace(a, b) with a string pattern: the first occurrence only
RECURSIVE Replace(_, _, _)
Replace(s, a, b) ==
    IF s = <<>> THEN <<>>
    ELSE IF Head(s) = a THEN <<b>> \o Tail(s)
    ELSE <<Head(s)>> \o Replace(Tail(s), a, b)

\* a plausible slip: the selected tone is left out of the key
SoundKeyNoTone(text, toneHl) == Replace(text, UUml, "v")

\* the argument putc's Enter case gives to playSound
SoundKey(text, toneHl) ==
    Replace(text, UUml, "v")
    \o (IF toneHl.highlighted THEN ToneToString(toneHl.coord[2] + 1) ELSE <<>>)

\* a plausible slip: an invalid append keeps the rejected text in the buffer
PutcResultKeep(text, c, toneHl) ==
    IF c = BACKSPACE THEN [text |-> Slice(text, 0, Len(text) - 1), error |-> FALSE, sound |-> <<>>, clearHl |-> FALSE]
    ELSE IF c = CLEAR THEN [text |-> <<>>, error |-> FALSE, sound |-> <<>>, clearHl |-> TRUE]
    ELSE IF c = ENTER
    THEN [text |-> <<>>, error |-> ~(text # <<>> /\ text \in Syllables),
          sound |-> IF text # <<>> /\ text \in Syllables THEN SoundKey(text, toneHl) ELSE <<>>,
          clearHl |-> TRUE]
    ELSE [text |-> text \o c, error |-> ~find(text \o c), sound |-> <<>>, clearHl |-> ~find(text \o c)]

\* a plausible slip: Enter accepts any valid prefix
PutcResultPrefix(text, c, toneHl) ==
    IF c = BACKSPACE THEN [text |-> Slice(text, 0, Len(text) - 1), error |-> FALSE, sound |-> <<>>, clearHl |-> FALSE]
    ELSE IF c = CLEAR THEN [text |-> <<>>, error |-> FALSE, sound |-> <<>>, clearHl |-> TRUE]
    ELSE IF c = ENTER
    THEN [text |-> <<>>, error |-> ~(text # <<>> /\ find(text)),
          sound |-> IF text # <<>> /\ find(text) THEN SoundKey(text, toneHl) ELSE <<>>,
          clearHl |-> TRUE]
    ELSE IF find(text \o c)
    THEN [text |-> text \o c, error |-> FALSE, sound |-> <<>>, clearHl |-> FALSE]
    ELSE [text |-> <<>>, error |-> TRUE, sound |-> <<>>, clearHl |-> TRUE]

\* a plausible slip: an invalid append drops only the rejected key
PutcResultDropKey(text, c, toneHl) ==
    IF c = BACKSPACE THEN [text |-> Slice(text, 0, Len(text) - 1), error |-> FALSE, sound |-> <<>>, clearHl |-> FALSE]
    ELSE IF c = CLEAR THEN [text |-> <<>>, error |-> FALSE, sound |-> <<>>, clearHl |-> TRUE]
    ELSE IF c = ENTER
    THEN [text |-> <<>>, error |-> ~(text # <<>> /\ text \in Syllables),
          sound |-> IF text # <<>> /\ text \in Syllables THEN SoundKey(text, toneHl) ELSE <<>>,
          clearHl |-> TRUE]
    ELSE IF find(text \o c)
    THEN [text |-> text \o c, error |-> FALSE, sound |-> <<>>, clearHl |-> FALSE]
    ELSE [text |-> text, error |-> TRUE, sound |-> <<>>, clearHl |-> TRUE]

\* a plausible slip: Backspace on an empty buffer is treated as a failed operation
PutcResultBackspaceError(text, c, toneHl) ==
    IF c = BACKSPACE THEN [text |-> Slice(text, 0, Len(text) - 1), error |-> text = <<>>, sound |-> <<>>, clearHl |-> FALSE]
    ELSE IF c = CLEAR THEN [text |-> <<>>, error |-> FALSE, sound |-> <<>>, clearHl |-> TRUE]
    ELSE IF c = ENTER
    THEN [text |-> <<>>, error |-> ~(text # <<>> /\ text \in Syllables),
          sound |-> IF text # <<>> /\ text \in Syllables THEN SoundKey(text, toneHl) ELSE <<>>,
          clearHl |-> TRUE]
    ELSE IF find(text \o c)
    THEN [text |-> text \o c, error |-> FALSE, sound |-> <<>>, clearHl |-> FALSE]
    ELSE [text |-> <<>>, error |-> TRUE, sound |-> <<>>, clearHl |-> TRUE]

\* the switch of putc: the new buffer, the error flag, the playSound argument (<<>> when
\* playSound is not called) and whether the keyboard highlight is released
PutcResult(text, c, toneHl) ==
    IF c = BACKSPACE THEN [text |-> Slice(text, 0, Len(text) - 1), error |-> FALSE, sound |-> <<>>, clearHl |-> FALSE]
    ELSE IF c = CLEAR THEN [text |-> <<>>, error |-> FALSE, sound |-> <<>>, clearHl |-> TRUE]
    ELSE IF c = ENTER
    THEN [text |-> <<>>, error |-> ~(text # <<>> /\ text \in Syllables),
          sound |-> IF text # <<>> /\ text \in Syllables THEN SoundKey(text, toneHl) ELSE <<>>,
          clearHl |-> TRUE]
    ELSE IF find(text \o c)
    THEN [text |-> text \o c, error |-> FALSE, sound |-> <<>>, clearHl |-> FALSE]
    ELSE [text |-> <<>>, error |-> TRUE, sound |-> <<>>, clearHl |-> TRUE]

\* a plausible slip: the error flag is not looked at
PinyinInfoNoError(text, error) ==
    IF text # <<>> THEN text ELSE PINYIN_INFO_PLACE_HOLDER

\* the text putc hands to updatePinyinInfoPanel
PinyinInfo(text, error) ==
    IF text # <<>> THEN text
    ELSE IF error THEN PINYIN_INFO_ERROR_MESSAGE ELSE PINYIN_INFO_PLACE_HOLDER

\* playSound starts a clip and its stop timer iff the sprite table has the key
Plays(sound) == sound # <<>> /\ sound \in Sprite

\* playSound(text): the `time` option of each startSound call it makes, in thousandths of a
\* second, and the delay of each setTimeout(stop) it sets, in milliseconds
playSound(text) ==
    IF text \notin DOMAIN sprite THEN [starts |-> <<>>, timers |-> <<>>]
    ELSE [starts |-> <<ParseInt(sprite[text][1])>>, timers |-> <<ParseInt(sprite[text][2])>>]

\* what putc's call of playSound does; sound is <<>> when putc does not call it
SoundCalls(sound) == IF sound = <<>> THEN [starts |-> <<>>, timers |-> <<>>] ELSE playSound(sound)

\* a plausible slip: Clear releases the tone strip's highlight as well
putcClearReleasesTone(c, hl) ==
    LET r == PutcResult(pinyinInfoText, c, pinyinToneHl)
    IN  /\ Plays(r.sound) => playing < MaxClips
        /\ pinyinInfoText' = r.text
        /\ pinyinMenuHl' = IF r.clearHl THEN Highlight(hl, hl.coord, "off") ELSE hl
        /\ playing' = playing + Len(SoundCalls(r.sound).timers)
        /\ pinyinInfoPanel' = PinyinInfo(r.text, r.error)
        /\ lastPutc' = [c |-> c, before |-> pinyinInfoText, error |-> r.error, sound |-> r.sound,
                        starts |-> SoundCalls(r.sound).starts, timers |-> SoundCalls(r.sound).timers]
        /\ pinyinToneHl' = IF c = CLEAR THEN Highlight(pinyinToneHl, pinyinToneHl.coord, "off")
                           ELSE pinyinToneHl

\* putc(c), the keyboard highlight being hl when it is called
putc(c, hl) ==
    LET r == PutcResult(pinyinInfoText, c, pinyinToneHl)
    IN  /\ Plays(r.sound) => playing < MaxClips
        /\ pinyinInfoText' = r.text
        /\ pinyinMenuHl' = IF r.clearHl THEN Highlight(hl, hl.coord, "off") ELSE hl
        /\ playing' = playing + Len(SoundCalls(r.sound).timers)
        /\ pinyinInfoPanel' = PinyinInfo(r.text, r.error)
        /\ lastPutc' = [c |-> c, before |-> pinyinInfoText, error |-> r.error, sound |-> r.sound,
                        starts |-> SoundCalls(r.sound).starts, timers |-> SoundCalls(r.sound).timers]
        /\ UNCHANGED pinyinToneHl

-----------------------------------------------------------------------------
(* The two datasets and the grid they share *)

\* PinyinDatabase.characters and .radicals: characters are named by their char code
DbCharacters == [i \in 1..NumCharacters |-> i]
DbRadicals == [i \in 1..NumRadicals |-> NumCharacters + i]

\* PinyinDatabase.dictionary[c].pinyin
Readings == << <<"a">>, <<"a", "i">>, <<"z", "h", "a">>, <<"z", "h", "i">>, <<"q", "i">>, <<"n", UUml>> >>
Pinyin(c) == Readings[(c % Len(Readings)) + 1]

AllChars == SeqToSet(DbCharacters) \cup SeqToSet(DbRadicals)

PageSize == MenuRows * MenuCols
MenuCoords == { <<x, y>> : x \in 0..(MenuRows - 1), y \in 0..(MenuCols - 1) }

\* ceil(total / pageSize)
PageCount(total) == (total + PageSize - 1) \div PageSize

\* GridMenu.setPageNum(p, total): the page numbers it may leave in curPageNum.
\* A number is clamped into 1..PageCount(total); what it does with NaN is not fixed.
SetPageNum(cur, p, total) ==
    IF IsNum(p)
    THEN { Num(IF p.v > PageCount(total)
               THEN (IF PageCount(total) < 1 THEN 1 ELSE PageCount(total))
               ELSE IF p.v < 1 THEN 1 ELSE p.v) }
    ELSE { cur, NaN }

\* GridMenu.incrementPageNum(total), decrementPageNum(), resetPageNum()
IncrementPageNum(cur, total) == IF IsNum(cur) /\ cur.v < PageCount(total) THEN Num(cur.v + 1) ELSE cur
DecrementPageNum(cur) == IF IsNum(cur) /\ cur.v > 1 THEN Num(cur.v - 1) ELSE cur
ResetPageNum == Num(1)

\* getCharacters, for given values of currentScene and of the two working lists
GetCharacters(scene, chars, rads) == IF scene = "radical_menu" THEN rads ELSE chars

\* getCommonHanziPageData with the page number taken as 0-based
GetCommonHanziPageDataZeroBased(list, page) ==
    IF IsNum(page) THEN Slice(list, PageSize * page.v, PageSize * (page.v + 1)) ELSE <<>>

\* getCommonHanziPageData: slice(NaN, NaN) is slice(0, 0)
GetCommonHanziPageData(list, page) ==
    IF IsNum(page) THEN Slice(list, PageSize * (page.v - 1), PageSize * page.v) ELSE <<>>

\* searchHanzi keeping the readings that start with the search text
SearchHanziAnchored(db, search) ==
    IF Len(search) = 0 THEN db
    ELSE LET Keep(c) == IsPrefix(search, Pinyin(c)) IN SelectSeq(db, Keep)

\* searchHanzi: the working list that replaces the one it searches
SearchHanzi(db, search) ==
    IF Len(search) = 0 THEN db
    ELSE LET Keep(c) == Includes(Pinyin(c), search) IN SelectSeq(db, Keep)

-----------------------------------------------------------------------------
(* History for the page memory: trip[d] follows dataset scene d being left at a *)
(* valid page, the other dataset being visited once, and d being entered again. *)

NoTrip == [stage |-> "none", page |-> 0]
Other(d) == IF d = "radical_menu" THEN "common_hanzi_menu" ELSE "radical_menu"
ValidPage(page, list) == IsNum(page) /\ 1 <= page.v /\ page.v <= PageCount(Len(list))

\* the scene changes from `from` to `to`; cur is the cursor before the change
TripOnSwitch(t, from, to, cur, chars, rads) ==
    [d \in DatasetScenes |->
        IF from = to THEN t[d]
        ELSE IF from = d
        THEN (IF ValidPage(cur, GetCharacters(d, chars, rads))
              THEN [stage |-> "left", page |-> cur.v] ELSE NoTrip)
        ELSE IF from = Other(d)
        THEN (IF t[d].stage = "inOther" THEN [t[d] EXCEPT !.stage = "leftOther"] ELSE NoTrip)
        ELSE IF to = Other(d)
        THEN (IF t[d].stage = "left" THEN [t[d] EXCEPT !.stage = "inOther"] ELSE NoTrip)
        ELSE IF to = d
        THEN (IF t[d].stage = "leftOther" THEN [t[d] EXCEPT !.stage = "back"] ELSE NoTrip)
        ELSE t[d]]

\* the cursor is moved by Prev, Next or a Goto response while `scene` is current
TripOnPaging(t, scene) ==
    [d \in DatasetScenes |->
        IF scene = Other(d) /\ t[d].stage = "inOther" THEN t[d] ELSE NoTrip]

NoTrips == [d \in DatasetScenes |-> NoTrip]

-----------------------------------------------------------------------------
(* Spawned entities *)

HANZI_MODEL_SCALE == 800
SCALE_STEP == 25

Uniform(a) == [x |-> a, y |-> a, z |-> a]

\* the transform spawnItem builds when none is given: beside the grid (position 0),
\* scaled by HANZI_MODEL_SCALE
DefaultTransform == [pos |-> 0, scale |-> Uniform(Num(HANZI_MODEL_SCALE))]
NoTransform == [pos |-> -1, scale |-> Uniform(Undefined)]

\* highlightBoxes gets a key for every actor created and loses none
HighlightBoxes == 1..Len(boxes)

\* the body of spawnItem after loadGltf: the box, its visual model, the two maps
CreateEntity(st, char, transform) ==
    [st EXCEPT
        !.boxes = Append(@, [char |-> char,
                             pos |-> (IF transform = NoTransform THEN DefaultTransform ELSE transform).pos,
                             scale |-> (IF transform = NoTransform THEN DefaultTransform ELSE transform).scale,
                             material |-> "invisible", destroyed |-> FALSE, actorDestroyed |-> FALSE]),
        !.spawnedHanzi = @ \cup {Len(st.boxes) + 1}]

\* spawnItem up to its first real wait. st holds boxes, spawnedHanzi, tasks, fetches;
\* cached is the key set of this.prefabs; char 0 is undefined.
SpawnItem(st, char, transform, cached) ==
    IF char = 0 THEN st
    ELSE IF char \in cached THEN CreateEntity(st, char, transform)
    ELSE [st EXCEPT
            !.fetches[char] = @ + 1,
            !.tasks = Append(@, [char |-> char, transform |-> transform, pc |-> "getGltf"])]

EntityState == [boxes |-> boxes, spawnedHanzi |-> spawnedHanzi, tasks |-> tasks, fetches |-> fetches]

SetEntityState(st) ==
    /\ boxes' = st.boxes
    /\ spawnedHanzi' = st.spawnedHanzi
    /\ tasks' = st.tasks
    /\ fetches' = st.fetches

\* entities and waiting spawns together stay within MaxEntities
Room(n) == Len(boxes) + Len(tasks) + n <= MaxEntities

RemoveAt(s, i) == SubSeq(s, 1, i - 1) \o SubSeq(s, i + 1, Len(s))

\* a plausible slip: the box is forgotten and destroyed, its visual model is not
DeleteItemBoxOnly(st, actor) ==
    [st EXCEPT !.spawnedHanzi = @ \ {actor},
               !.boxes[actor].destroyed = TRUE]

\* deleteItem(actor): forget the box, destroy the visual model and the box
DeleteItem(st, actor) ==
    [st EXCEPT !.spawnedHanzi = @ \ {actor},
               !.boxes[actor].destroyed = TRUE,
               !.boxes[actor].actorDestroyed = TRUE]

\* a plausible slip: the tracked set is emptied, nothing is destroyed
ClearLevelForgetOnly(st, n) == [st EXCEPT !.spawnedHanzi = {}]

\* clearLevel: deleteItem for every key of highlightBoxes, in insertion order
RECURSIVE ClearLevel(_, _)
ClearLevel(st, n) == IF n = 0 THEN st ELSE DeleteItem(ClearLevel(st, n - 1), n)

\* the level's in-memory representation: the (character, transform) pairs of the tracked boxes
PairOf(b) == [char |-> b.char, transform |-> [pos |-> b.pos, scale |-> b.scale]]
LivePairs == { PairOf(boxes[i]) : i \in spawnedHanzi }

\* JSON.stringify followed by JSON.parse of a number: NaN comes back as null
ToJSON(a) == IF a.k = "nan" THEN Null ELSE a

\* the keys of a Map in insertion order; box ids grow with insertion
RECURSIVE Ascending(_)
Ascending(S) ==
    IF S = {} THEN <<>>
    ELSE LET m == CHOOSE a \in S : \A b \in S : a <= b IN <<m>> \o Ascending(S \ {m})

\* a plausible slip: the level is built from every box ever created
LevelRefsAllBoxes == [i \in 1..Len(boxes) |-> [char |-> boxes[i].char, box |-> i]]

\* the level array saveLevel builds: the character and a reference to the box's transform
LevelRefs == [i \in 1..Cardinality(spawnedHanzi) |->
                [char |-> boxes[Ascending(spawnedHanzi)[i]].char, box |-> Ascending(spawnedHanzi)[i]]]

\* JSON.stringify(level) at the time writeLevel is called, as read back by JSON.parse
Serialize(level, bs) ==
    [i \in 1..Len(level) |->
        [char |-> level[i].char,
         transform |-> [pos |-> bs[level[i].box].pos,
                        scale |-> [x |-> ToJSON(bs[level[i].box].scale.x),
                                   y |-> ToJSON(bs[level[i].box].scale.y),
                                   z |-> ToJSON(bs[level[i].box].scale.z)]]]]

\* path.basename of a name given as its path components
Basename(name) == IF name = <<>> THEN <<>> ELSE <<name[Len(name)]>>

\* loadLevel's forEach: spawnItem for every record, in order
RECURSIVE SpawnLevel(_, _, _)
SpawnLevel(st, level, cached) ==
    IF level = <<>> THEN st
    ELSE SpawnLevel(SpawnItem(st, Head(level).char, Head(level).transform, cached), Tail(level), cached)

\* scale.x += step: NaN stays NaN, null counts as 0
AddScale(a, step) ==
    IF a.k = "num" THEN Num(a.v + step)
    ELSE IF a.k = "null" THEN Num(step)
    ELSE NaN

\* parseInt(text) * HANZI_MODEL_SCALE
ScaledInt(text) == IF IsNum(ParseInt(text)) THEN Num(ParseInt(text).v * HANZI_MODEL_SCALE) ELSE NaN

-----------------------------------------------------------------------------
(* Construction and init() *)

NoRoundTrip == [stage |-> "none", name |-> <<>>, snap |-> {}]
NoPutc == [c |-> <<"none">>, before |-> <<>>, error |-> FALSE, sound |-> <<>>, starts |-> <<>>, timers |-> <<>>]

\* the fields of a new session; the level files are what earlier sessions left on disk
Constructed ==
    /\ scenes = <<>>
    /\ currentScene = ""
    /\ enabled = {}
    /\ sceneOps = <<>>
    /\ pinyinInfoText = <<>>
    /\ pinyinMenuHl = NoHighlight
    /\ pinyinToneHl = NoHighlight
    /\ pinyinInfoPanel = <<>>
    /\ lastPutc = NoPutc
    /\ playing = 0
    /\ characters = <<>>
    /\ radicals = <<>>
    /\ curPageNum = Undefined
    /\ radicalPageNum = Undefined
    /\ hanziPageNum = Undefined
    /\ commonHanziCells = <<>>
    /\ commonHanziHl = NoHighlight
    /\ hanziInfoPanel = 0
    /\ prompts = {}
    /\ trip = NoTrips
    /\ prefabs = {}
    /\ dimensions = {}
    /\ fetches = [c \in AllChars |-> 0]
    /\ tasks = <<>>
    /\ boxes = <<>>
    /\ spawnedHanzi = {}
    /\ highlightedActor = 0
    /\ numberInputText = Undefined
    /\ pendingIO = {}
    /\ lastMsg = ""
    /\ clickOps = <<>>
    /\ rt = NoRoundTrip

\* a session that starts with no level file
Init == Constructed /\ levels = {}

\* a level of two records that an earlier session saved as "lvl"
StoredLevel ==
    << [char |-> DbCharacters[1], transform |-> DefaultTransform],
       [char |-> DbCharacters[2], transform |-> DefaultTransform] >>

\* a session that starts with that level file on disk
InitStored == Constructed /\ levels = {[path |-> <<"lvl">>, data |-> StoredLevel]}

Started == scenes # <<>>

\* init(): load the data, create the widgets (enabled, on page 1), register the scenes
\* and switch to main_menu
Start ==
    /\ ~Started
    /\ LET r == SwitchSceneResult(currentScene, SCENES, Widgets, "main_menu")
       IN  /\ scenes' = SCENES
           /\ currentScene' = r.cur
           /\ sceneOps' = r.ops
           /\ enabled' = r.en
    /\ characters' = DbCharacters
    /\ radicals' = DbRadicals
    /\ curPageNum' = Num(1)
    /\ commonHanziCells' = GetCommonHanziPageData(GetCharacters(currentScene, DbCharacters, DbRadicals), Num(1))
    /\ pinyinInfoPanel' = PINYIN_INFO_PLACE_HOLDER
    /\ UNCHANGED <<pinyinInfoText, pinyinMenuHl, pinyinToneHl, lastPutc, playing>>
    /\ UNCHANGED <<radicalPageNum, hanziPageNum, gridVars, prompts, trip, entVars>>

-----------------------------------------------------------------------------
(* Scene navigation *)

\* switchScene(scene) as a whole handler, with the trip history kept
GoToScene(scene) ==
    /\ switchScene(scene)
    /\ trip' = TripOnSwitch(trip, currentScene, SwitchSceneResult(currentScene, scenes, enabled, scene).cur,
                            curPageNum, characters, radicals)

\* a plausible slip: the home button does not look at who clicked
HomeClickAnyone(user) ==
    /\ Started
    /\ GoToScene("main_menu")
    /\ UNCHANGED <<pinyinVars, pagerVars, gridVars, prompts, entVars>>

\* the home button's onClick
HomeClick(user) ==
    /\ Started
    /\ IF checkUserName(user, OWNER_NAME)
       THEN GoToScene("main_menu")
       ELSE UNCHANGED <<sceneVars, trip>>
    /\ UNCHANGED <<pinyinVars, pagerVars, gridVars, prompts, entVars>>

MAIN_MENU_ITEMS == <<"Pin Yin", "Phonetics", "Radicals", "Common">>
IndexOf(items, item) == (CHOOSE i \in 1..Len(items) : items[i] = item) - 1

\* a plausible slip: entering a dataset stores the cursor in that dataset's own variable
EnterDatasetSwapped(scene) ==
    /\ GoToScene(scene)
    /\ LET remembered == IF scene = "radical_menu" THEN radicalPageNum ELSE hanziPageNum
           list == GetCharacters(scene, characters, radicals)
       IN  /\ IF scene = "radical_menu"
              THEN radicalPageNum' = curPageNum /\ UNCHANGED hanziPageNum
              ELSE hanziPageNum' = curPageNum /\ UNCHANGED radicalPageNum
           /\ IF remembered # Undefined
              THEN curPageNum' \in SetPageNum(curPageNum, remembered, Len(list))
              ELSE UNCHANGED curPageNum
           /\ commonHanziCells' = GetCommonHanziPageData(list, curPageNum')
    /\ UNCHANGED <<characters, radicals>>

\* the Radicals and Common cases of the main menu: switch, remember the cursor as the
\* other dataset's page, restore this dataset's remembered page, redraw the grid
EnterDataset(scene) ==
    /\ GoToScene(scene)
    /\ LET remembered == IF scene = "radical_menu" THEN radicalPageNum ELSE hanziPageNum
           list == GetCharacters(scene, characters, radicals)
       IN  /\ IF scene = "radical_menu"
              THEN hanziPageNum' = curPageNum /\ UNCHANGED radicalPageNum
              ELSE radicalPageNum' = curPageNum /\ UNCHANGED hanziPageNum
           /\ IF remembered # Undefined
              THEN curPageNum' \in SetPageNum(curPageNum, remembered, Len(list))
              ELSE UNCHANGED curPageNum
           /\ commonHanziCells' = GetCommonHanziPageData(list, curPageNum')
    /\ UNCHANGED <<characters, radicals>>

\* the main menu's click handler, for the cell in row `row`
MainMenuClick(row) ==
    /\ Started
    /\ IF currentScene # "main_menu"
       THEN UNCHANGED <<sceneVars, pagerVars, trip>>
       ELSE IF row = IndexOf(MAIN_MENU_ITEMS, "Pin Yin")
       THEN GoToScene("pinyin_menu") /\ UNCHANGED pagerVars
       ELSE IF row = IndexOf(MAIN_MENU_ITEMS, "Phonetics")
       THEN GoToScene("phonetics_table") /\ UNCHANGED pagerVars
       ELSE IF row = IndexOf(MAIN_MENU_ITEMS, "Radicals")
       THEN EnterDataset("radical_menu")
       ELSE EnterDataset("common_hanzi_menu")
    /\ UNCHANGED <<pinyinVars, gridVars, prompts, entVars>>

-----------------------------------------------------------------------------
(* The Pinyin scene's handlers *)

\* the keyboard's click handler
PinyinMenuClick(coord) ==
    /\ Started
    /\ IF currentScene # "pinyin_menu"
       THEN UNCHANGED pinyinVars
       ELSE LET hl == Highlight(pinyinMenuHl, coord, "on")
            IN  putc(PinyinKeys[GetHighlightedIndex(hl.coord, KeyCols) + 1], hl)
    /\ UNCHANGED <<sceneVars, pagerVars, gridVars, prompts, trip, entVars>>

\* the tone strip's click handler
PinyinToneClick(coord) ==
    /\ Started
    /\ IF currentScene # "pinyin_menu"
       THEN UNCHANGED pinyinToneHl
       ELSE pinyinToneHl' = Highlight(pinyinToneHl, coord, "toggle")
    /\ UNCHANGED <<pinyinInfoText, pinyinMenuHl, pinyinInfoPanel, lastPutc, playing>>
    /\ UNCHANGED <<sceneVars, pagerVars, gridVars, prompts, trip, entVars>>

PINYIN_MENU_CONTROL_ITEMS == <<"Backspace", "Clear", "Enter", "Back">>

\* the Pinyin control strip's click handler, for the cell in column `col`
PinyinControlClick(col) ==
    /\ Started
    /\ IF currentScene # "pinyin_menu"
       THEN UNCHANGED <<sceneVars, pinyinVars, trip>>
       ELSE IF col = IndexOf(PINYIN_MENU_CONTROL_ITEMS, "Back")
       THEN GoToScene("main_menu") /\ UNCHANGED pinyinVars
       ELSE /\ putc(<<PINYIN_MENU_CONTROL_ITEMS[col + 1]>>, pinyinMenuHl)
            /\ UNCHANGED <<sceneVars, trip>>
    /\ UNCHANGED <<pagerVars, gridVars, prompts, entVars>>

\* a plausible slip: one timer stops every clip that is playing
StopSoundAll ==
    /\ playing > 0
    /\ playing' = 0
    /\ UNCHANGED <<pinyinInfoText, pinyinMenuHl, pinyinToneHl, pinyinInfoPanel, lastPutc>>
    /\ UNCHANGED <<sceneVars, pagerVars, gridVars, prompts, trip, entVars>>

\* the timer set by playSound fires and stops its clip
StopSound ==
    /\ playing > 0
    /\ playing' = playing - 1
    /\ UNCHANGED <<pinyinInfoText, pinyinMenuHl, pinyinToneHl, pinyinInfoPanel, lastPutc>>
    /\ UNCHANGED <<sceneVars, pagerVars, gridVars, prompts, trip, entVars>>

-----------------------------------------------------------------------------
(* The dataset scenes' handlers *)

COMMON_HANZI_MENU_CONTROL_ITEMS ==
    <<"Search", "Goto", "Prev", "Next", "Spawn", "Delete", "Save", "Load", "Clear">>

SearchTexts == { <<>>, <<"a">>, <<"z", "h">>, <<"A">> }
GotoTexts == { <<"2">>, <<"3">>, <<"9">>, <<"x">> }
ScaleTexts == { <<"2">>, <<"x">> }
LevelNames == { <<"lvl">>, <<"dir", "lvl">> }

ClickCoords == { c \in MenuCoords : GetHighlightedIndex(c, MenuCols) < MaxCells }

\* the dataset index of the grid cell at coord on the page shown, -1 when there is none
HanziIndex(coord, page) ==
    IF coord = NoCoord \/ ~IsNum(page) THEN -1
    ELSE PageSize * (page.v - 1) + GetHighlightedIndex(coord, MenuCols)

\* list[index], 0 for undefined
CharAt(list, index) == IF index + 1 \in DOMAIN list THEN list[index + 1] ELSE 0

ActiveList == GetCharacters(currentScene, characters, radicals)

\* what a prompt's callback has captured: only the overwrite prompt captures anything
NoData == [path |-> <<>>, level |-> <<>>]

OpenPrompt(kind, user, data) ==
    /\ Cardinality(prompts) < MaxPrompts
    /\ prompts' = prompts \cup {[kind |-> kind, user |-> user, data |-> data]}

\* nothing is being loaded, written or asked about: a round trip may start
Quiescent ==
    /\ tasks = <<>>
    /\ pendingIO = {}
    /\ \A q \in prompts : q.kind # "overwrite"

\* a plausible slip: the Hanzi grid's handler without its scene check
HanziCellClickNoGuard(coord) ==
    /\ Started
    /\ LET hl == Highlight(commonHanziHl, coord, "toggle")
           char == CharAt(ActiveList, HanziIndex(hl.coord, curPageNum))
       IN  /\ commonHanziHl' = hl
           /\ hanziInfoPanel' = IF char = 0 THEN hanziInfoPanel ELSE char
    /\ UNCHANGED <<sceneVars, pinyinVars, pagerVars, prompts, trip, entVars>>

\* the Hanzi grid's click handler
HanziCellClick(coord) ==
    /\ Started
    /\ IF ~InDatasetScene
       THEN UNCHANGED gridVars
       ELSE LET hl == Highlight(commonHanziHl, coord, "toggle")
                char == CharAt(ActiveList, HanziIndex(hl.coord, curPageNum))
            IN  /\ commonHanziHl' = hl
                /\ hanziInfoPanel' = IF char = 0 THEN hanziInfoPanel ELSE char
    /\ UNCHANGED <<sceneVars, pinyinVars, pagerVars, prompts, trip, entVars>>

\* the Prev and Next cases
TurnPage(page) ==
    /\ curPageNum' = page
    /\ commonHanziCells' = GetCommonHanziPageData(ActiveList, page)
    /\ trip' = TripOnPaging(trip, currentScene)
    /\ UNCHANGED <<prompts, boxes, spawnedHanzi, tasks, fetches, rt>>

\* the Spawn case: spawnItem for the character of the highlighted cell
SpawnClick ==
    LET char == CharAt(ActiveList, HanziIndex(commonHanziHl.coord, curPageNum))
    IN  /\ char # 0 => Room(1)
        /\ (char # 0 /\ char \notin prefabs) => fetches[char] < MaxFetches
        /\ SetEntityState(SpawnItem(EntityState, char, NoTransform, prefabs))
        /\ rt' = NoRoundTrip
        /\ UNCHANGED <<curPageNum, commonHanziCells, prompts, trip>>

\* the Delete case
DeleteClick ==
    /\ IF highlightedActor # 0
       THEN /\ SetEntityState(DeleteItem(EntityState, highlightedActor))
            /\ rt' = NoRoundTrip
       ELSE UNCHANGED <<boxes, spawnedHanzi, tasks, fetches, rt>>
    /\ UNCHANGED <<curPageNum, commonHanziCells, prompts, trip>>

\* the cases that only open a prompt: Search, Goto, Save, Load, Clear
AskClick(kind, user) ==
    /\ OpenPrompt(kind, user, NoData)
    /\ UNCHANGED <<curPageNum, commonHanziCells, trip, boxes, spawnedHanzi, tasks, fetches, rt>>

\* the dataset control strip's click handler, for the cell in column `col`
HanziControlClick(col, user) ==
    /\ Started
    /\ IF ~InDatasetScene
       THEN UNCHANGED <<curPageNum, commonHanziCells, prompts, trip, boxes, spawnedHanzi, tasks, fetches, rt>>
       ELSE LET item == COMMON_HANZI_MENU_CONTROL_ITEMS[col + 1]
            IN  CASE item = "Search" -> AskClick("search", user)
                  [] item = "Goto" -> AskClick("goto", user)
                  [] item = "Prev" -> TurnPage(DecrementPageNum(curPageNum))
                  [] item = "Next" -> TurnPage(IncrementPageNum(curPageNum, Len(ActiveList)))
                  [] item = "Spawn" -> SpawnClick
                  [] item = "Delete" -> DeleteClick
                  [] item = "Save" -> AskClick("save", user)
                  [] item = "Load" -> AskClick("load", user)
                  [] item = "Clear" -> AskClick("clear", user)
    /\ UNCHANGED <<sceneVars, pinyinVars, characters, radicals, radicalPageNum, hanziPageNum, gridVars>>
    /\ UNCHANGED <<prefabs, dimensions, highlightedActor, numberInputText, levels, pendingIO, lastMsg, clickOps>>

\* the "Search Hanzi" response without the resetPageNum call
SearchResponseKeepPage(p, submitted, text) ==
    /\ p \in prompts /\ p.kind = "search"
    /\ prompts' = prompts \ {p}
    /\ IF submitted
       THEN /\ IF currentScene = "common_hanzi_menu"
               THEN characters' = SearchHanzi(DbCharacters, text) /\ UNCHANGED radicals
               ELSE radicals' = SearchHanzi(DbRadicals, text) /\ UNCHANGED characters
            /\ UNCHANGED curPageNum
            /\ commonHanziCells' =
                   GetCommonHanziPageData(GetCharacters(currentScene, characters', radicals'), curPageNum)
            /\ trip' = NoTrips
       ELSE UNCHANGED <<characters, radicals, curPageNum, commonHanziCells, trip>>
    /\ UNCHANGED <<sceneVars, pinyinVars, radicalPageNum, hanziPageNum, gridVars, entVars>>

\* the response to the "Search Hanzi" prompt
SearchResponse(p, submitted, text) ==
    /\ p \in prompts /\ p.kind = "search"
    /\ prompts' = prompts \ {p}
    /\ IF submitted
       THEN /\ IF currentScene = "common_hanzi_menu"
               THEN characters' = SearchHanzi(DbCharacters, text) /\ UNCHANGED radicals
               ELSE radicals' = SearchHanzi(DbRadicals, text) /\ UNCHANGED characters
            /\ curPageNum' = ResetPageNum
            /\ commonHanziCells' =
                   GetCommonHanziPageData(GetCharacters(currentScene, characters', radicals'), ResetPageNum)
            /\ trip' = NoTrips
       ELSE UNCHANGED <<characters, radicals, curPageNum, commonHanziCells, trip>>
    /\ UNCHANGED <<sceneVars, pinyinVars, radicalPageNum, hanziPageNum, gridVars, entVars>>

\* the response to the "Goto page" prompt
GotoResponse(p, submitted, text) ==
    /\ p \in prompts /\ p.kind = "goto"
    /\ prompts' = prompts \ {p}
    /\ IF submitted
       THEN /\ curPageNum' \in SetPageNum(curPageNum, ParseInt(text), Len(ActiveList))
            /\ commonHanziCells' = GetCommonHanziPageData(ActiveList, curPageNum')
            /\ trip' = TripOnPaging(trip, currentScene)
       ELSE UNCHANGED <<curPageNum, commonHanziCells, trip>>
    /\ UNCHANGED <<sceneVars, pinyinVars, characters, radicals, radicalPageNum, hanziPageNum, gridVars, entVars>>

-----------------------------------------------------------------------------
(* The scale input *)

\* the step keeps the scale within MaxScaleSteps steps of HANZI_MODEL_SCALE
StepAllowed(a, step) ==
    \/ a.k = "nan"
    \/ /\ IsNum(a)
       /\ a.v + step <= HANZI_MODEL_SCALE + MaxScaleSteps * SCALE_STEP
       /\ a.v + step >= HANZI_MODEL_SCALE - MaxScaleSteps * SCALE_STEP

\* a plausible slip: the step is not applied to the z axis
ScaleStepResultFlat(scale, step) ==
    [x |-> AddScale(scale.x, step), y |-> AddScale(scale.y, step), z |-> scale.z]

\* scale.x += step; scale.y += step; scale.z += step
ScaleStepResult(scale, step) ==
    [x |-> AddScale(scale.x, step), y |-> AddScale(scale.y, step), z |-> AddScale(scale.z, step)]

\* numberInput's onIncrease (step = SCALE_STEP) and onDecrease (step = -SCALE_STEP)
ScaleStepClick(step, user) ==
    /\ Started
    /\ IF InDatasetScene /\ highlightedActor # 0
       THEN /\ StepAllowed(boxes[highlightedActor].scale.x, step)
            /\ boxes' = [boxes EXCEPT ![highlightedActor].scale = ScaleStepResult(@, step)]
            /\ numberInputText' = boxes'[highlightedActor].scale.x
            /\ rt' = NoRoundTrip
       ELSE UNCHANGED <<boxes, numberInputText, rt>>
    /\ UNCHANGED <<sceneVars, pinyinVars, pagerVars, gridVars, prompts, trip>>
    /\ UNCHANGED <<prefabs, dimensions, fetches, tasks, spawnedHanzi, highlightedActor, levels, pendingIO,
                   lastMsg, clickOps>>

\* numberInput's onEdit: ask for the scale when an entity is selected
ScaleEditClick(user) ==
    /\ Started
    /\ IF InDatasetScene /\ highlightedActor # 0
       THEN OpenPrompt("scale", user, NoData)
       ELSE UNCHANGED prompts
    /\ UNCHANGED <<sceneVars, pinyinVars, pagerVars, gridVars, trip, entVars>>

\* the response to the "Change scale to" prompt; without a selected actor the callback throws
ScaleResponse(p, submitted, text) ==
    /\ p \in prompts /\ p.kind = "scale"
    /\ prompts' = prompts \ {p}
    /\ IF submitted /\ highlightedActor # 0
       THEN /\ boxes' = [boxes EXCEPT ![highlightedActor].scale = Uniform(ScaledInt(text))]
            /\ numberInputText' = boxes'[highlightedActor].scale.x
            /\ rt' = NoRoundTrip
       ELSE UNCHANGED <<boxes, numberInputText, rt>>
    /\ UNCHANGED <<sceneVars, pinyinVars, pagerVars, gridVars, trip>>
    /\ UNCHANGED <<prefabs, dimensions, fetches, tasks, spawnedHanzi, highlightedActor, levels, pendingIO,
                   lastMsg, clickOps>>

-----------------------------------------------------------------------------
(* Spawned entities: clicks, grabs, and the completion of loads *)

\* a plausible slip: the previously selected box keeps its highlight styling
EntityClickOpsNoRevert(id, selected) ==
    IF selected # id
    THEN << <<"style", id>>, <<"select", id>> >>
    ELSE << <<"unstyle", id>>, <<"select", 0>> >>

\* the steps of an owner's click on entity id while `selected` is highlightedActor
EntityClickOps(id, selected) ==
    IF selected # id
    THEN (IF selected # 0 THEN << <<"unstyle", selected>> >> ELSE <<>>)
         \o << <<"style", id>>, <<"select", id>> >>
    ELSE << <<"unstyle", id>>, <<"select", 0>> >>

RECURSIVE ApplyClickOps(_, _)
ApplyClickOps(st, ops) ==
    IF ops = <<>> THEN st
    ELSE LET op == Head(ops)
         IN  ApplyClickOps(
                 CASE op[1] = "style" -> [st EXCEPT !.boxes[op[2]].material = "boundingBox"]
                   [] op[1] = "unstyle" -> [st EXCEPT !.boxes[op[2]].material = "invisible"]
                   [] op[1] = "select" -> [st EXCEPT !.selected = op[2]],
                 Tail(ops))

\* the onClick of a spawned box (the box exists until it is destroyed)
EntityClick(id, user) ==
    /\ id \in HighlightBoxes /\ ~boxes[id].destroyed
    /\ IF checkUserName(user, OWNER_NAME)
       THEN LET ops == EntityClickOps(id, highlightedActor)
                r == ApplyClickOps([boxes |-> boxes, selected |-> highlightedActor], ops)
            IN  /\ boxes' = r.boxes
                /\ highlightedActor' = r.selected
                /\ clickOps' = ops
                /\ hanziInfoPanel' = IF r.selected = id /\ id \in spawnedHanzi
                                      THEN boxes[id].char ELSE hanziInfoPanel
       ELSE UNCHANGED <<boxes, highlightedActor, clickOps, hanziInfoPanel>>
    /\ UNCHANGED <<sceneVars, pinyinVars, pagerVars, commonHanziHl, prompts, trip>>
    /\ UNCHANGED <<prefabs, dimensions, fetches, tasks, spawnedHanzi, numberInputText, levels, pendingIO,
                   lastMsg, rt>>

\* a grabbed box is dropped at another position; the box's transform is subscribed to
EntityMoved(id, pos) ==
    /\ id \in HighlightBoxes /\ ~boxes[id].destroyed
    /\ boxes[id].pos # pos
    /\ boxes' = [boxes EXCEPT ![id].pos = pos]
    /\ rt' = NoRoundTrip
    /\ UNCHANGED <<sceneVars, pinyinVars, pagerVars, gridVars, prompts, trip>>
    /\ UNCHANGED <<prefabs, dimensions, fetches, tasks, spawnedHanzi, highlightedActor, numberInputText,
                   levels, pendingIO, lastMsg, clickOps>>

entityFrame == <<sceneVars, pinyinVars, pagerVars, gridVars, prompts, trip, highlightedActor,
                 numberInputText, levels, pendingIO, lastMsg, clickOps>>

\* getGltf resolves: loadGltf computes the bounding box and calls assets.loadGltf
GetGltfDone(i) ==
    /\ i \in DOMAIN tasks /\ tasks[i].pc = "getGltf"
    /\ tasks' = [tasks EXCEPT ![i].pc = "loadGltf"]
    /\ UNCHANGED <<prefabs, dimensions, fetches, boxes, spawnedHanzi, entityFrame, rt>>

\* getGltf rejects: loadGltf and spawnItem reject, nothing is created
GetGltfFailed(i) ==
    /\ i \in DOMAIN tasks /\ tasks[i].pc = "getGltf"
    /\ tasks' = RemoveAt(tasks, i)
    /\ rt' = NoRoundTrip
    /\ UNCHANGED <<prefabs, dimensions, fetches, boxes, spawnedHanzi, entityFrame>>

\* assets.loadGltf resolves: the prefab and the dimensions are cached and spawnItem goes on
LoadGltfDone(i) ==
    /\ i \in DOMAIN tasks /\ tasks[i].pc = "loadGltf"
    /\ prefabs' = prefabs \cup {tasks[i].char}
    /\ dimensions' = dimensions \cup {tasks[i].char}
    /\ SetEntityState(CreateEntity([EntityState EXCEPT !.tasks = RemoveAt(@, i)],
                                   tasks[i].char, tasks[i].transform))
    /\ UNCHANGED <<entityFrame, rt>>

\* assets.loadGltf rejects: the catch logs it; spawnItem goes on only if another load has
\* cached the character, otherwise reading the dimensions throws
LoadGltfFailed(i) ==
    /\ i \in DOMAIN tasks /\ tasks[i].pc = "loadGltf"
    /\ LET st == [EntityState EXCEPT !.tasks = RemoveAt(@, i)]
       IN  SetEntityState(IF tasks[i].char \in dimensions
                          THEN CreateEntity(st, tasks[i].char, tasks[i].transform)
                          ELSE st)
    /\ rt' = NoRoundTrip
    /\ UNCHANGED <<prefabs, dimensions, entityFrame>>

-----------------------------------------------------------------------------
(* Levels: save, load, clear *)

\* the file at `path`, as a set of at most one record
FileAt(path) == { f \in levels : f.path = path }
ExistsSync(path) == FileAt(path) # {}

\* ./public/levels/${path.basename(filename)}.json
SavePath(filename) == Basename(filename)

\* ./public/levels/${filename}.json
LoadPath(filename) == filename

\* writeLevel: JSON.stringify(level) now, fs.writeFile later
WriteLevel(path, level, user) ==
    /\ Cardinality(pendingIO) < MaxIO
    /\ pendingIO' = pendingIO \cup {[op |-> "write", path |-> path, data |-> Serialize(level, boxes),
                                      user |-> user]}

\* the response to the "Save as:" prompt: saveLevel(dialog.text, user)
SaveResponse(p, submitted, filename) ==
    /\ p \in prompts /\ p.kind = "save"
    /\ IF submitted
       THEN /\ IF ExistsSync(SavePath(filename))
               THEN /\ prompts' = (prompts \ {p}) \cup
                                      {[kind |-> "overwrite", user |-> p.user,
                                        data |-> [path |-> SavePath(filename), level |-> LevelRefs]]}
                    /\ UNCHANGED pendingIO
               ELSE /\ prompts' = prompts \ {p}
                    /\ WriteLevel(SavePath(filename), LevelRefs, p.user)
            /\ rt' = IF Quiescent
                     THEN [stage |-> "saving", name |-> filename, snap |-> LivePairs]
                     ELSE NoRoundTrip
       ELSE /\ prompts' = prompts \ {p}
            /\ UNCHANGED <<pendingIO, rt>>
    /\ UNCHANGED <<sceneVars, pinyinVars, pagerVars, gridVars, trip>>
    /\ UNCHANGED <<prefabs, dimensions, fetches, tasks, boxes, spawnedHanzi, highlightedActor,
                   numberInputText, levels, lastMsg, clickOps>>

\* a plausible slip: the answer to the overwrite question is not looked at
OverwriteResponseAlways(p, submitted) ==
    /\ p \in prompts /\ p.kind = "overwrite"
    /\ prompts' = prompts \ {p}
    /\ WriteLevel(p.data.path, p.data.level, p.user) /\ UNCHANGED rt
    /\ UNCHANGED <<sceneVars, pinyinVars, pagerVars, gridVars, trip>>
    /\ UNCHANGED <<prefabs, dimensions, fetches, tasks, boxes, spawnedHanzi, highlightedActor,
                   numberInputText, levels, lastMsg, clickOps>>

\* the response to "File already exists, overwrite?"
OverwriteResponse(p, submitted) ==
    /\ p \in prompts /\ p.kind = "overwrite"
    /\ prompts' = prompts \ {p}
    /\ IF submitted
       THEN WriteLevel(p.data.path, p.data.level, p.user) /\ UNCHANGED rt
       ELSE rt' = NoRoundTrip /\ UNCHANGED pendingIO
    /\ UNCHANGED <<sceneVars, pinyinVars, pagerVars, gridVars, trip>>
    /\ UNCHANGED <<prefabs, dimensions, fetches, tasks, boxes, spawnedHanzi, highlightedActor,
                   numberInputText, levels, lastMsg, clickOps>>

\* fs.writeFile calls back without an error: the file holds the data, the user is told "Saved"
WriteDone(io) ==
    /\ io \in pendingIO /\ io.op = "write"
    /\ pendingIO' = pendingIO \ {io}
    /\ levels' = (levels \ FileAt(io.path)) \cup {[path |-> io.path, data |-> io.data]}
    /\ lastMsg' = "Saved"
    /\ rt' = IF rt.stage = "saving" THEN [rt EXCEPT !.stage = "saved"] ELSE NoRoundTrip
    /\ UNCHANGED <<sceneVars, pinyinVars, pagerVars, gridVars, prompts, trip>>
    /\ UNCHANGED <<prefabs, dimensions, fetches, tasks, boxes, spawnedHanzi, highlightedActor,
                   numberInputText, clickOps>>

\* fs.writeFile calls back with an error: the user is told "Failed"
WriteFailed(io) ==
    /\ io \in pendingIO /\ io.op = "write"
    /\ pendingIO' = pendingIO \ {io}
    /\ lastMsg' = "Failed"
    /\ rt' = NoRoundTrip
    /\ UNCHANGED <<sceneVars, pinyinVars, pagerVars, gridVars, prompts, trip>>
    /\ UNCHANGED <<prefabs, dimensions, fetches, tasks, boxes, spawnedHanzi, highlightedActor,
                   numberInputText, levels, clickOps>>

\* the response to "Clear level?"
ClearResponse(p, submitted) ==
    /\ p \in prompts /\ p.kind = "clear"
    /\ prompts' = prompts \ {p}
    /\ IF submitted
       THEN /\ SetEntityState(ClearLevel(EntityState, Len(boxes)))
            /\ rt' = IF rt.stage = "saved" /\ Quiescent
                     THEN [rt EXCEPT !.stage = "cleared"] ELSE NoRoundTrip
       ELSE UNCHANGED <<boxes, spawnedHanzi, tasks, fetches, rt>>
    /\ UNCHANGED <<sceneVars, pinyinVars, pagerVars, gridVars, trip>>
    /\ UNCHANGED <<prefabs, dimensions, highlightedActor, numberInputText, levels, pendingIO,
                   lastMsg, clickOps>>

\* a plausible slip: the level is fetched without looking whether its file exists
LoadResponseNoCheck(p, submitted, filename) ==
    /\ p \in prompts /\ p.kind = "load"
    /\ prompts' = prompts \ {p}
    /\ IF submitted
       THEN /\ Cardinality(pendingIO) < MaxIO
            /\ pendingIO' = pendingIO \cup
                                {[op |-> "fetch", path |-> LoadPath(filename), data |-> <<>>,
                                  user |-> p.user]}
            /\ UNCHANGED lastMsg
            /\ rt' = IF rt.stage = "cleared" /\ rt.name = filename /\ Quiescent
                     THEN [rt EXCEPT !.stage = "loading"] ELSE NoRoundTrip
       ELSE UNCHANGED <<pendingIO, lastMsg, rt>>
    /\ UNCHANGED <<sceneVars, pinyinVars, pagerVars, gridVars, trip>>
    /\ UNCHANGED <<prefabs, dimensions, fetches, tasks, boxes, spawnedHanzi, highlightedActor,
                   numberInputText, levels, clickOps>>

\* the response to the "Load from:" prompt: loadLevel(dialog.text, user) up to fetchJSON
LoadResponse(p, submitted, filename) ==
    /\ p \in prompts /\ p.kind = "load"
    /\ prompts' = prompts \ {p}
    /\ IF submitted
       THEN /\ IF ExistsSync(LoadPath(filename))
               THEN /\ Cardinality(pendingIO) < MaxIO
                    /\ pendingIO' = pendingIO \cup
                                        {[op |-> "fetch", path |-> LoadPath(filename), data |-> <<>>,
                                          user |-> p.user]}
                    /\ UNCHANGED lastMsg
               ELSE lastMsg' = "No such file" /\ UNCHANGED pendingIO
            /\ rt' = IF rt.stage = "cleared" /\ rt.name = filename /\ Quiescent
                     THEN [rt EXCEPT !.stage = "loading"] ELSE NoRoundTrip
       ELSE UNCHANGED <<pendingIO, lastMsg, rt>>
    /\ UNCHANGED <<sceneVars, pinyinVars, pagerVars, gridVars, trip>>
    /\ UNCHANGED <<prefabs, dimensions, fetches, tasks, boxes, spawnedHanzi, highlightedActor,
                   numberInputText, levels, clickOps>>

\* fetchJSON resolves with the file's content as it is now: spawnItem for every record
FetchLevelDone(io) ==
    /\ io \in pendingIO /\ io.op = "fetch"
    /\ ExistsSync(io.path)
    /\ pendingIO' = pendingIO \ {io}
    /\ LET level == (CHOOSE f \in FileAt(io.path) : TRUE).data
       IN  /\ Room(Len(level))
           /\ SetEntityState(SpawnLevel(EntityState, level, prefabs))
    /\ UNCHANGED <<sceneVars, pinyinVars, pagerVars, gridVars, prompts, trip>>
    /\ UNCHANGED <<prefabs, dimensions, highlightedActor, numberInputText, levels, lastMsg, clickOps, rt>>

\* fetchJSON rejects: loadLevel rejects, nothing is spawned
FetchLevelFailed(io) ==
    /\ io \in pendingIO /\ io.op = "fetch"
    /\ pendingIO' = pendingIO \ {io}
    /\ rt' = NoRoundTrip
    /\ UNCHANGED <<sceneVars, pinyinVars, pagerVars, gridVars, prompts, trip>>
    /\ UNCHANGED <<prefabs, dimensions, fetches, tasks, boxes, spawnedHanzi, highlightedActor,
                   numberInputText, levels, lastMsg, clickOps>>

BackCol == IndexOf(PINYIN_MENU_CONTROL_ITEMS, "Back")

\* every way the scene changes: init(), the home button, the main menu, the Pinyin Back button
NextScene ==
    \/ Start
    \/ \E user \in Users : HomeClick(user)
    \/ \E row \in 0..(Len(MAIN_MENU_ITEMS) - 1) : MainMenuClick(row)
    \/ PinyinControlClick(BackCol)

NextPinyin ==
    \/ Start
    \/ \E user \in Users : HomeClick(user)
    \/ \E row \in { IndexOf(MAIN_MENU_ITEMS, "Pin Yin"), IndexOf(MAIN_MENU_ITEMS, "Phonetics") } :
          MainMenuClick(row)
    \/ \E coord \in PinyinCoords : PinyinMenuClick(coord)
    \/ \E coord \in ToneCoords : PinyinToneClick(coord)
    \/ \E col \in 0..(Len(PINYIN_MENU_CONTROL_ITEMS) - 1) : PinyinControlClick(col)
    \/ StopSound

\* the Pinyin composer, with the scene changes that lead to it and away from it
SpecPinyin == Init /\ [][NextPinyin]_vars

\* the same where every timer set by setTimeout fires in the end
LivePinyin == SpecPinyin /\ WF_vars(StopSound)

PagingCols == { IndexOf(COMMON_HANZI_MENU_CONTROL_ITEMS, i) : i \in {"Search", "Goto", "Prev", "Next"} }

NextPager ==
    \/ NextScene
    \/ \E col \in PagingCols, user \in Users : HanziControlClick(col, user)
    \/ \E p \in prompts, submitted \in BOOLEAN, text \in SearchTexts : SearchResponse(p, submitted, text)
    \/ \E p \in prompts, submitted \in BOOLEAN, text \in GotoTexts : GotoResponse(p, submitted, text)

\* scene navigation and the paging of the two datasets
SpecPager == Init /\ [][NextPager]_vars

EditCols ==
    { IndexOf(COMMON_HANZI_MENU_CONTROL_ITEMS, i) : i \in {"Spawn", "Delete", "Save", "Load", "Clear"} }

SelectCols == { IndexOf(COMMON_HANZI_MENU_CONTROL_ITEMS, i) : i \in {"Spawn", "Delete", "Clear"} }

Positions == 0..MaxPos

\* the way into the Common Hanzi scene, the grid, and the completions of spawnItem's loads
NextSpawn ==
    \/ Start
    \/ MainMenuClick(IndexOf(MAIN_MENU_ITEMS, "Common"))
    \/ \E coord \in ClickCoords : HanziCellClick(coord)
    \/ \E i \in DOMAIN tasks : GetGltfDone(i)
    \/ \E i \in DOMAIN tasks : GetGltfFailed(i)
    \/ \E i \in DOMAIN tasks : LoadGltfDone(i)
    \/ \E i \in DOMAIN tasks : LoadGltfFailed(i)

NextSelect ==
    \/ NextSpawn
    \/ \E col \in SelectCols, user \in Users : HanziControlClick(col, user)
    \/ \E q \in prompts, submitted \in BOOLEAN : ClearResponse(q, submitted)
    \/ \E id \in HighlightBoxes, user \in Users : EntityClick(id, user)

\* spawning, selecting, deleting and clearing entities
SpecSelect == Init /\ [][NextSelect]_vars

NextScale ==
    \/ NextSelect
    \/ \E user \in Users : HomeClick(user)
    \/ \E step \in {SCALE_STEP, -SCALE_STEP}, user \in Users : ScaleStepClick(step, user)
    \/ \E user \in Users : ScaleEditClick(user)
    \/ \E q \in prompts, submitted \in BOOLEAN, text \in ScaleTexts : ScaleResponse(q, submitted, text)

\* the same with the scale input
SpecScale == Init /\ [][NextScale]_vars

NextLevel ==
    \/ NextSpawn
    \/ \E col \in EditCols, user \in Users : HanziControlClick(col, user)
    \/ \E id \in HighlightBoxes, pos \in Positions : EntityMoved(id, pos)
    \/ \E q \in prompts, submitted \in BOOLEAN, name \in LevelNames : SaveResponse(q, submitted, name)
    \/ \E q \in prompts, submitted \in BOOLEAN : OverwriteResponse(q, submitted)
    \/ \E q \in prompts, submitted \in BOOLEAN : ClearResponse(q, submitted)
    \/ \E q \in prompts, submitted \in BOOLEAN, name \in LevelNames : LoadResponse(q, submitted, name)
    \/ \E io \in pendingIO : WriteDone(io)
    \/ \E io \in pendingIO : WriteFailed(io)
    \/ \E io \in pendingIO : FetchLevelDone(io)
    \/ \E io \in pendingIO : FetchLevelFailed(io)

\* spawning, moving, saving, clearing and loading levels
SpecLevel == Init /\ [][NextLevel]_vars

FileCols == { IndexOf(COMMON_HANZI_MENU_CONTROL_ITEMS, i) : i \in {"Save", "Load"} }

NextFiles ==
    \/ Start
    \/ MainMenuClick(IndexOf(MAIN_MENU_ITEMS, "Common"))
    \/ HanziCellClick(<<0, 0>>)
    \/ /\ tasks = <<>>
       /\ HanziControlClick(IndexOf(COMMON_HANZI_MENU_CONTROL_ITEMS, "Spawn"), OWNER_NAME)
    \/ \E i \in DOMAIN tasks : GetGltfDone(i)
    \/ \E i \in DOMAIN tasks : LoadGltfDone(i)
    \/ /\ tasks = <<>> /\ prompts = {} /\ pendingIO = {} /\ levels = {}
       /\ \E id \in HighlightBoxes : EntityClick(id, OWNER_NAME)
    \/ \E col \in FileCols : HanziControlClick(col, OWNER_NAME)
    \/ \E q \in prompts, submitted \in BOOLEAN, name \in LevelNames : SaveResponse(q, submitted, name)
    \/ \E q \in prompts, submitted \in BOOLEAN : OverwriteResponse(q, submitted)
    \/ \E q \in prompts, submitted \in BOOLEAN, name \in LevelNames : LoadResponse(q, submitted, name)
    \/ \E io \in pendingIO : WriteDone(io)
    \/ \E io \in pendingIO : WriteFailed(io)
    \/ \E io \in pendingIO : FetchLevelDone(io)
    \/ \E io \in pendingIO : FetchLevelFailed(io)

\* the owner spawning entities one after the other, selecting them before the first save,
\* and saving and loading levels
SpecFiles == Init /\ [][NextFiles]_vars

NextClear ==
    \/ Start
    \/ MainMenuClick(IndexOf(MAIN_MENU_ITEMS, "Common"))
    \/ HanziCellClick(<<0, 0>>)
    \/ /\ tasks = <<>>
       /\ HanziControlClick(IndexOf(COMMON_HANZI_MENU_CONTROL_ITEMS, "Spawn"), OWNER_NAME)
    \/ \E i \in DOMAIN tasks : GetGltfDone(i)
    \/ \E i \in DOMAIN tasks : LoadGltfDone(i)
    \/ /\ tasks = <<>> /\ prompts = {} /\ pendingIO = {}
       /\ \E id \in HighlightBoxes : EntityClick(id, OWNER_NAME)
    \/ \E col \in EditCols \ SelectCols : HanziControlClick(col, OWNER_NAME)
    \/ /\ tasks = <<>>
       /\ \E col \in SelectCols : HanziControlClick(col, OWNER_NAME)
    \/ \E q \in prompts : SaveResponse(q, TRUE, <<"lvl">>)
    \/ \E q \in prompts : OverwriteResponse(q, TRUE)
    \/ \E q \in prompts : LoadResponse(q, TRUE, <<"lvl">>)
    \/ \E q \in prompts, submitted \in BOOLEAN : ClearResponse(q, submitted)
    \/ \E io \in pendingIO : WriteDone(io)
    \/ \E io \in pendingIO : FetchLevelDone(io)

\* the owner spawning, selecting and deleting entities, saving and loading one level, and
\* clearing the level
SpecClear == Init /\ [][NextClear]_vars

NextReload ==
    \/ NextScene
    \/ HanziControlClick(IndexOf(COMMON_HANZI_MENU_CONTROL_ITEMS, "Load"), OWNER_NAME)
    \/ \E q \in prompts, submitted \in BOOLEAN : LoadResponse(q, submitted, <<"lvl">>)
    \/ \E io \in pendingIO : FetchLevelDone(io)
    \/ \E i \in DOMAIN tasks : GetGltfDone(i)
    \/ \E i \in DOMAIN tasks : LoadGltfDone(i)
    \/ \E id \in HighlightBoxes : EntityClick(id, OWNER_NAME)

\* the owner loading a level that was stored before the session, with every model load
\* succeeding after a delay of its own
SpecReload == InitStored /\ [][NextReload]_vars

NextOwner ==
    \/ NextScene
    \/ HanziCellClick(<<0, 0>>)
    \/ /\ tasks = <<>>
       /\ HanziControlClick(IndexOf(COMMON_HANZI_MENU_CONTROL_ITEMS, "Spawn"), OWNER_NAME)
    \/ \E i \in DOMAIN tasks : GetGltfDone(i)
    \/ \E i \in DOMAIN tasks : LoadGltfDone(i)
    \/ \E id \in HighlightBoxes, user \in Users : EntityClick(id, user)

\* the owner and a guest clicking the home button and the spawned entities in every scene
SpecOwner == Init /\ [][NextOwner]_vars

NextResize ==
    \/ Start
    \/ MainMenuClick(IndexOf(MAIN_MENU_ITEMS, "Common"))
    \/ HanziCellClick(<<0, 0>>)
    \/ /\ tasks = <<>>
       /\ HanziControlClick(IndexOf(COMMON_HANZI_MENU_CONTROL_ITEMS, "Spawn"), OWNER_NAME)
    \/ \E i \in DOMAIN tasks : GetGltfDone(i)
    \/ \E i \in DOMAIN tasks : LoadGltfDone(i)
    \/ \E id \in HighlightBoxes : EntityClick(id, OWNER_NAME)
    \/ \E step \in {SCALE_STEP, -SCALE_STEP} : ScaleStepClick(step, OWNER_NAME)
    \/ ScaleEditClick(OWNER_NAME)
    \/ \E q \in prompts, submitted \in BOOLEAN, text \in ScaleTexts : ScaleResponse(q, submitted, text)

\* the owner spawning entities one after the other, selecting and rescaling them
SpecResize == Init /\ [][NextResize]_vars

NextGuard ==
    \/ NextScene
    \/ PinyinControlClick(IndexOf(PINYIN_MENU_CONTROL_ITEMS, "Clear"))
    \/ PinyinMenuClick(<<0, 0>>)
    \/ PinyinToneClick(<<0, 0>>)
    \/ HanziCellClick(<<0, 0>>)
    \/ /\ boxes = <<>> /\ tasks = <<>>
       /\ HanziControlClick(IndexOf(COMMON_HANZI_MENU_CONTROL_ITEMS, "Spawn"), OWNER_NAME)
    \/ \E i \in DOMAIN tasks : GetGltfDone(i)
    \/ \E i \in DOMAIN tasks : LoadGltfDone(i)
    \/ \E id \in HighlightBoxes : EntityClick(id, OWNER_NAME)
    \/ ScaleStepClick(SCALE_STEP, OWNER_NAME)
    \/ ScaleEditClick(OWNER_NAME)
    \/ \E q \in prompts : ScaleResponse(q, FALSE, <<>>)

\* every scene's widgets clicked in every scene, with one entity spawned and selected
SpecGuard == Init /\ [][NextGuard]_vars

Next ==
    \/ NextPinyin
    \/ NextPager
    \/ NextScale
    \/ NextLevel
    \/ NextGuard
    \/ NextResize
    \/ NextFiles
    \/ NextClear
    \/ NextOwner

Spec == Init /\ [][Next]_vars

-----------------------------------------------------------------------------
(* Scene coordination: claims *)

\* C3: after init exactly one registered scene is current, the enabled widgets are exactly
\* that scene's widgets, and within one switchScene no disable follows an enable
OneSceneEnabled ==
    Started =>
        /\ currentScene \in SceneNames(scenes)
        /\ enabled = WidgetsOf(scenes, currentScene)
        /\ \A i, j \in DOMAIN sceneOps :
              i < j => ~(sceneOps[i][1] = "enable" /\ sceneOps[j][1] = "disable")

\* C3 witness: a switch to radical_menu has disabled and then enabled widgets
SwitchedToRadicals ==
    /\ currentScene = "radical_menu"
    /\ enabled = WidgetsOf(scenes, "radical_menu")
    /\ \E i, j \in DOMAIN sceneOps : sceneOps[i][1] = "disable" /\ sceneOps[j][1] = "enable"

\* C4 as stated: after a switch, every widget of every other scene is disabled and every
\* widget of the current scene is enabled
OtherScenesAllDisabled ==
    (Started /\ sceneOps # <<>>) =>
        /\ \A k \in SceneNames(scenes) \ {currentScene} : WidgetsOf(scenes, k) \cap enabled = {}
        /\ WidgetsOf(scenes, currentScene) \subseteq enabled

\* C4 amended: a step that changes the current scene leaves a widget enabled iff it belongs
\* to the new current scene, whichever of the five scenes that is
SwitchEnablesTargetOnly ==
    [][(Started /\ currentScene' # currentScene) =>
          /\ currentScene' \in SceneNames(scenes')
          /\ \A w \in Widgets : w \in enabled' <=> w \in WidgetsOf(scenes', currentScene')]_vars

\* C4 witness: common_hanzi_menu was switched to, its widgets (shared with radical_menu) are enabled
SwitchedToCommon ==
    /\ currentScene = "common_hanzi_menu"
    /\ sceneOps # <<>>
    /\ WidgetsOf(scenes, "radical_menu") \subseteq enabled
    /\ "mainMenu" \notin enabled

\* C21: a click on the main menu while main_menu is not current, on the keyboard, the tone
\* strip or the Pinyin control strip while pinyin_menu is not current, and on the Hanzi grid,
\* its control strip or the scale input while no dataset scene is current, changes nothing
StaleClicksIgnored ==
    [][/\ (/\ currentScene # "main_menu"
           /\ \E row \in 0..(Len(MAIN_MENU_ITEMS) - 1) : MainMenuClick(row)) => UNCHANGED vars
       /\ (/\ currentScene # "pinyin_menu"
           /\ \/ \E coord \in PinyinCoords : PinyinMenuClick(coord)
              \/ \E coord \in ToneCoords : PinyinToneClick(coord)
              \/ \E col \in 0..(Len(PINYIN_MENU_CONTROL_ITEMS) - 1) : PinyinControlClick(col))
              => UNCHANGED vars
       /\ (/\ ~InDatasetScene
           /\ \/ \E coord \in MenuCoords : HanziCellClick(coord)
              \/ \E col \in 0..(Len(COMMON_HANZI_MENU_CONTROL_ITEMS) - 1), user \in Users :
                    HanziControlClick(col, user)
              \/ \E step \in {SCALE_STEP, -SCALE_STEP}, user \in Users : ScaleStepClick(step, user)
              \/ \E user \in Users : ScaleEditClick(user))
              => UNCHANGED vars]_vars

\* C21 witness: the phonetics table is current while the composer holds a buffer and a tone,
\* a Hanzi cell is highlighted and an entity is selected: a click on any other scene's
\* widget would have something to change
EverythingStaleInPhonetics ==
    /\ currentScene = "phonetics_table"
    /\ pinyinInfoText # <<>> /\ pinyinToneHl.highlighted
    /\ commonHanziHl.highlighted
    /\ highlightedActor # 0 /\ ~boxes[highlightedActor].destroyed

-----------------------------------------------------------------------------
(* The Pinyin composer: claims *)

IsSomePrefix(text) == \E syl \in Syllables : IsPrefix(text, syl)
IsKey(c) == c \in SeqToSet(PinyinKeys)

\* C5: the buffer is empty or a prefix of some syllable
BufferIsPrefix == pinyinInfoText = <<>> \/ IsSomePrefix(pinyinInfoText)

\* C5 witness: Backspace left a prefix that no key produces
BackspacedToZ == pinyinInfoText = <<"z">> /\ lastPutc.c = BACKSPACE

\* C6: Enter succeeds (no error, playSound called) iff the buffer was exactly a syllable,
\* and the buffer is empty after it
EnterCommitsExactSyllable ==
    lastPutc.c = ENTER =>
        /\ (~lastPutc.error /\ lastPutc.sound # <<>>) <=> (lastPutc.before \in Syllables)
        /\ lastPutc.error <=> (lastPutc.before \notin Syllables)
        /\ pinyinInfoText = <<>>

\* C6 witness: Enter on the prefix "zh" failed
EnterOnPrefixFailed ==
    /\ lastPutc.c = ENTER
    /\ lastPutc.before = <<"z", "h">>
    /\ lastPutc.error
    /\ lastPutc.sound = <<>>
    /\ pinyinInfoText = <<>>

\* C7: a key that makes the buffer a prefix of no syllable empties the buffer and shows the
\* error message; a key that keeps it a prefix is appended, with no error
AppendOutcome ==
    IsKey(lastPutc.c) =>
        IF IsSomePrefix(lastPutc.before \o lastPutc.c)
        THEN /\ pinyinInfoText = lastPutc.before \o lastPutc.c
             /\ ~lastPutc.error
             /\ pinyinInfoPanel # PINYIN_INFO_ERROR_MESSAGE
        ELSE /\ pinyinInfoText = <<>>
             /\ lastPutc.error
             /\ pinyinInfoPanel = PINYIN_INFO_ERROR_MESSAGE

\* C7 witness: "q" after "zh"
QAfterZhRejected ==
    /\ lastPutc.c = <<"q">>
    /\ lastPutc.before = <<"z", "h">>
    /\ pinyinInfoText = <<>>
    /\ pinyinInfoPanel = PINYIN_INFO_ERROR_MESSAGE

\* the lookup key of syllable s while the tone strip is in state tone: 'ü' reads 'v', and the
\* label of the selected tone cell follows if a tone is selected
LookupKey(s, tone) ==
    [i \in 1..Len(s) |-> IF s[i] = UUml THEN "v" ELSE s[i]]
    \o (IF tone.highlighted THEN <<PINYIN_TONE_ITEMS[tone.coord[2] + 1]>> ELSE <<>>)

EnterCol == IndexOf(PINYIN_MENU_CONTROL_ITEMS, "Enter")

\* C16: Enter on a buffer that is a syllable looks up the syllable with 'ü' as 'v' followed by
\* the tone digit iff a tone is selected; when the sprite table has that key, one clip is
\* started at the segment's start offset and one stop is scheduled after its duration
EnterPlaysSegment ==
    [][(/\ currentScene = "pinyin_menu" /\ pinyinInfoText \in Syllables
        /\ PinyinControlClick(EnterCol)) =>
            LET key == LookupKey(pinyinInfoText, pinyinToneHl) IN
            /\ lastPutc'.sound = key
            /\ Len(key) = Len(pinyinInfoText) + (IF pinyinToneHl.highlighted THEN 1 ELSE 0)
            /\ key \in DOMAIN sprite =>
                  /\ lastPutc'.starts = <<ParseInt(sprite[key][1])>>
                  /\ lastPutc'.timers = <<ParseInt(sprite[key][2])>>
                  /\ playing' = playing + 1]_vars

\* C16 witness: Enter on "nü" with tone 3 selected played the segment of "nv3"
EnterPlayedNv3 ==
    /\ lastPutc.c = ENTER
    /\ lastPutc.before = <<"n", UUml>>
    /\ lastPutc.sound = <<"n", "v", "3">>
    /\ lastPutc.starts = <<Num(3700)>> /\ lastPutc.timers = <<Num(700)>>
    /\ playing > 0

\* C17 as stated: after Enter on a syllable whose key (syllable plus selected tone) has no
\* audio segment, nothing was played, the error message is displayed and the buffer is empty
UnmappedKeyReported ==
    (/\ lastPutc.c = ENTER /\ lastPutc.before \in Syllables
     /\ lastPutc.sound \notin DOMAIN sprite) =>
        /\ lastPutc.starts = <<>> /\ lastPutc.timers = <<>>
        /\ pinyinInfoPanel = PINYIN_INFO_ERROR_MESSAGE
        /\ pinyinInfoText = <<>>

\* the last composer operation failed: an append that left the prefixes of the syllables, or
\* Enter on a buffer that is not a syllable
LastOpFailed ==
    \/ IsKey(lastPutc.c) /\ ~IsSomePrefix(lastPutc.before \o lastPutc.c)
    \/ lastPutc.c = ENTER /\ lastPutc.before \notin Syllables

\* C18: once a composer operation has run, the info panel shows the buffer if it is not
\* empty, otherwise the error message iff the last operation failed, otherwise the
\* placeholder; so an error display does not outlive the next operation unless that fails too
PanelFollowsLastOp ==
    lastPutc # NoPutc =>
        pinyinInfoPanel =
            IF pinyinInfoText # <<>> THEN pinyinInfoText
            ELSE IF LastOpFailed THEN PINYIN_INFO_ERROR_MESSAGE
            ELSE PINYIN_INFO_PLACE_HOLDER

\* C18 witness: Enter on the empty buffer failed and the error message is displayed
EnterOnEmptyShowsError ==
    /\ lastPutc.c = ENTER /\ lastPutc.before = <<>>
    /\ pinyinInfoText = <<>>
    /\ pinyinInfoPanel = PINYIN_INFO_ERROR_MESSAGE

\* C19: after Backspace the buffer is the buffer before it without its last character (empty
\* if it was empty), no error is flagged, and the panel shows the buffer, or the placeholder
\* when the buffer is empty
BackspaceDropsLast ==
    lastPutc.c = BACKSPACE =>
        /\ IF lastPutc.before = <<>> THEN pinyinInfoText = <<>>
           ELSE /\ Len(pinyinInfoText) = Len(lastPutc.before) - 1
                /\ \A i \in DOMAIN pinyinInfoText : pinyinInfoText[i] = lastPutc.before[i]
        /\ ~lastPutc.error
        /\ lastPutc.sound = <<>>
        /\ pinyinInfoPanel = (IF pinyinInfoText = <<>> THEN PINYIN_INFO_PLACE_HOLDER ELSE pinyinInfoText)

\* C19 witness: Backspace on "zhi" left "zh", which the panel shows
BackspacedZhiToZh ==
    /\ lastPutc.c = BACKSPACE /\ lastPutc.before = <<"z", "h", "i">>
    /\ pinyinInfoText = <<"z", "h">>
    /\ pinyinInfoPanel = <<"z", "h">>

ClearCol == IndexOf(PINYIN_MENU_CONTROL_ITEMS, "Clear")

\* C20: a click on the tone strip changes neither the buffer nor the displayed text; a key of
\* the keyboard, Backspace, Clear and Enter leave the tone selection as it is; Clear empties
\* the buffer and releases the keyboard's highlight
ToneAndBufferIndependent ==
    [][/\ (\E coord \in ToneCoords : PinyinToneClick(coord)) =>
              UNCHANGED <<pinyinInfoText, pinyinInfoPanel, pinyinMenuHl>>
       /\ (\/ \E coord \in PinyinCoords : PinyinMenuClick(coord)
           \/ \E col \in 0..(Len(PINYIN_MENU_CONTROL_ITEMS) - 1) : PinyinControlClick(col)) =>
              UNCHANGED pinyinToneHl
       /\ (currentScene = "pinyin_menu" /\ PinyinControlClick(ClearCol)) =>
              /\ pinyinInfoText' = <<>>
              /\ ~pinyinMenuHl'.highlighted
              /\ pinyinToneHl' = pinyinToneHl]_vars

\* C20 witness: Clear emptied a non-empty buffer while a tone is selected, and the tone is
\* still selected
ClearedWithToneSelected ==
    /\ lastPutc.c = CLEAR /\ lastPutc.before # <<>>
    /\ pinyinInfoText = <<>>
    /\ ~pinyinMenuHl.highlighted
    /\ pinyinToneHl.highlighted

-----------------------------------------------------------------------------
(* Page memory: claims *)

\* C10: when dataset d was left at a valid page p, the other dataset was then visited once
\* (and paged there at will), no search was submitted, and d is entered again, d shows page p
PageRestoredOnReturn ==
    \A d \in DatasetScenes : trip[d].stage = "back" => curPageNum = Num(trip[d].page)

\* C10 witness: radicals were left at page 2, the Common dataset was left at page 3, and
\* radicals are shown at page 2 again
RadicalsBackAtPageTwo ==
    /\ currentScene = "radical_menu"
    /\ trip["radical_menu"] = [stage |-> "back", page |-> 2]
    /\ hanziPageNum = Num(3)
    /\ curPageNum = Num(2)

\* C11 as stated: whenever a dataset scene is current the page cursor is a number p with
\* 1 <= p <= ceil(len(active working list) / pageSize).
PageCursorInRange ==
    InDatasetScene =>
        /\ IsNum(curPageNum)
        /\ 1 <= curPageNum.v
        /\ curPageNum.v <= PageCount(Len(ActiveList))

\* page p (1-based) of list L for page size s, entry by entry: entry i of the page is entry
\* s*(p-1)+i of L, for as many i <= s as L has entries left
PageOf(L, p, s) ==
    LET left == Len(L) - s * (p - 1)
        n == IF left < 0 THEN 0 ELSE IF left > s THEN s ELSE left
    IN  [i \in 1..n |-> L[s * (p - 1) + i]]

\* C12: in a dataset scene showing page p the grid holds the slice [s*(p-1), s*p) of the
\* working list truncated at its end (a list of s+1 entries has s on page 1 and one on page 2),
\* and a Goto to a number beyond the last page of a non-empty list ends on the last page
RenderedPageIsSlice ==
    [][/\ (InDatasetScene' /\ IsNum(curPageNum')) =>
              commonHanziCells' = PageOf(ActiveList', curPageNum'.v, PageSize)
       /\ \A p \in prompts, t \in GotoTexts :
              (/\ InDatasetScene /\ GotoResponse(p, TRUE, t)
               /\ IsNum(ParseInt(t)) /\ ParseInt(t).v > PageCount(Len(ActiveList))
               /\ ActiveList # <<>>) =>
                  /\ curPageNum' = Num(PageCount(Len(ActiveList)))
                  /\ Len(commonHanziCells') = Len(ActiveList) - PageSize * (PageCount(Len(ActiveList)) - 1)]_vars

\* C12 witness: the last page of a working list of more than one page is shown and is not full
LastPageTruncated ==
    /\ InDatasetScene /\ IsNum(curPageNum)
    /\ curPageNum.v > 1 /\ curPageNum.v = PageCount(Len(ActiveList))
    /\ commonHanziCells # <<>> /\ Len(commonHanziCells) < PageSize
    /\ commonHanziCells[1] = ActiveList[PageSize * (curPageNum.v - 1) + 1]

\* q occurs in reading r at some offset, character by character
Contains(r, q) ==
    \E off \in 0..Len(r) :
        /\ off + Len(q) <= Len(r)
        /\ \A k \in 1..Len(q) : r[off + k] = q[k]

\* list holds exactly the entries of db that search(q) selects, in the order of db
IsSearchResult(list, db, q) ==
    LET Pos(c) == CHOOSE i \in DOMAIN db : db[i] = c IN
    /\ SeqToSet(list) = { c \in SeqToSet(db) : q = <<>> \/ Contains(Pinyin(c), q) }
    /\ \A i, j \in DOMAIN list : i < j => Pos(list[i]) < Pos(list[j])

\* C13: a submitted search in a dataset scene leaves as that dataset's working list the
\* full source dataset when the query is empty, and otherwise exactly the entries of the full
\* source dataset, in source order, whose reading contains the query (case-sensitive),
\* whatever the working list was before; the other dataset's working list is unchanged
SearchSetsFilteredList ==
    [][\A p \in prompts, q \in SearchTexts :
          (InDatasetScene /\ SearchResponse(p, TRUE, q)) =>
              /\ q = <<>> => ActiveList' = (IF currentScene = "radical_menu" THEN DbRadicals ELSE DbCharacters)
              /\ IsSearchResult(ActiveList', IF currentScene = "radical_menu" THEN DbRadicals ELSE DbCharacters, q)
              /\ currentScene = "radical_menu" => characters' = characters
              /\ currentScene = "common_hanzi_menu" => radicals' = radicals]_vars

\* C13 witness: the characters are filtered to some but not all entries while the radicals
\* are filtered to none
CharactersFilteredRadicalsEmpty ==
    /\ currentScene = "common_hanzi_menu"
    /\ characters # <<>> /\ characters # DbCharacters
    /\ \A i \in DOMAIN characters : Contains(Pinyin(characters[i]), <<"z", "h">>)
    /\ radicals = <<>>

\* C14: a search submitted in a dataset scene leaves the page cursor at 1 and the grid
\* showing page 1 of the new working list of that dataset, whatever page was shown before
SearchResetsPage ==
    [][\A p \in prompts, q \in SearchTexts :
          (InDatasetScene /\ SearchResponse(p, TRUE, q)) =>
              /\ curPageNum' = Num(1)
              /\ commonHanziCells' = PageOf(ActiveList', 1, PageSize)
              /\ IsSearchResult(ActiveList', IF currentScene = "radical_menu" THEN DbRadicals ELSE DbCharacters, q)]_vars

\* C14 witness: the radicals are filtered to some but not all entries and their first page is
\* shown, while the page kept for the characters is another one
FilteredRadicalsAtPageOne ==
    /\ currentScene = "radical_menu"
    /\ radicals # <<>> /\ radicals # DbRadicals
    /\ curPageNum = Num(1)
    /\ commonHanziCells = PageOf(radicals, 1, PageSize)
    /\ IsNum(hanziPageNum) /\ hanziPageNum.v > 1

\* C15 as stated: a submitted Goto response or scale-edit response whose text does not parse
\* as a number changes neither the page cursor, nor the displayed page, nor any box's scale
NonNumericResponseRejected ==
    [][(\E q \in prompts :
           \/ \E t \in GotoTexts : ~IsNum(ParseInt(t)) /\ GotoResponse(q, TRUE, t)
           \/ \E t \in ScaleTexts : ~IsNum(ParseInt(t)) /\ ScaleResponse(q, TRUE, t))
       => UNCHANGED <<curPageNum, commonHanziCells, boxes>>]_vars

-----------------------------------------------------------------------------
(* Entities: who may edit, how models are fetched, selection, the level round trip *)

\* C1 as stated: a click by a user other than the owner on Spawn, Delete, Save, Load or
\* Clear of the dataset control strip, or on increase, decrease or edit of the scale
\* input, changes no state: it creates, deletes and rescales no entity, starts no spawn,
\* writes no level file and loads no level.
GuestEditsNothing ==
    [][\A user \in Users \ {OWNER_NAME} :
          (\/ \E col \in EditCols : HanziControlClick(col, user)
           \/ \E step \in {SCALE_STEP, -SCALE_STEP} : ScaleStepClick(step, user)
           \/ ScaleEditClick(user))
          => UNCHANGED <<boxes, spawnedHanzi, tasks, fetches, levels, pendingIO>>]_vars

\* C2 as stated: for every character, no second fetch of its model is issued while a
\* load of it is in flight (every waiting spawn in `tasks` has issued a fetch of its own).
NoConcurrentFetch ==
    \A i, j \in DOMAIN tasks : i # j => tasks[i].char # tasks[j].char

\* C8 as stated: once saveLevel(X) has written, clearLevel() has run and loadLevel(X)
\* has nothing left to wait for, the tracked (character, transform) pairs are the ones
\* that were there when the level was saved.
RoundTripReproduces ==
    (rt.stage = "loading" /\ pendingIO = {} /\ tasks = <<>>) => LivePairs = rt.snap

\* a comes before b in ops
Before(ops, a, b) == \E i, j \in DOMAIN ops : i < j /\ ops[i] = a /\ ops[j] = b

\* C9: after every step a box has the highlight material iff it is the box of
\* highlightedActor (so at most one has it); an owner's click on another entity than the
\* selected one reverts the selected one's material before the clicked one becomes
\* highlightedActor; an owner's click on the selected entity leaves highlightedActor null.
SelectionExclusive ==
    [][/\ \A b \in DOMAIN boxes' : (boxes'[b].material = "boundingBox") <=> (highlightedActor' = b)
       /\ \A id \in HighlightBoxes :
             EntityClick(id, OWNER_NAME) =>
                 IF highlightedActor = id
                 THEN highlightedActor' = 0
                 ELSE /\ highlightedActor' = id
                      /\ highlightedActor # 0 =>
                             Before(clickOps', <<"unstyle", highlightedActor>>, <<"select", id>>)]_vars

\* C9's case: the second entity was clicked while the first was selected
SecondSelectedAfterFirst ==
    /\ clickOps = << <<"unstyle", 1>>, <<"style", 2>>, <<"select", 2>> >>
    /\ highlightedActor = 2
    /\ ~boxes[1].destroyed /\ ~boxes[2].destroyed

\* a plus step in floating point: NaN plus anything is NaN
Stepped(a, step) == IF a.k = "num" THEN [k |-> "num", v |-> a.v + step] ELSE a

\* C22: with an entity selected, an increase or decrease adds the same step to the x, y and z
\* scale of its box, and a submitted scale v (a number) sets all three to v times
\* HANZI_MODEL_SCALE; with no entity selected, increase, decrease and the scale edit leave
\* every box as it is
ScaleIsUniform ==
    [][/\ \A step \in {SCALE_STEP, -SCALE_STEP}, user \in Users :
              (InDatasetScene /\ highlightedActor # 0 /\ ScaleStepClick(step, user)) =>
                  /\ \A ax \in {"x", "y", "z"} :
                        boxes'[highlightedActor].scale[ax] = Stepped(boxes[highlightedActor].scale[ax], step)
                  /\ \A i \in DOMAIN boxes : i # highlightedActor => boxes'[i] = boxes[i]
       /\ \A q \in prompts, t \in ScaleTexts :
              (highlightedActor # 0 /\ IsNum(ParseInt(t)) /\ ScaleResponse(q, TRUE, t)) =>
                  /\ \A ax \in {"x", "y", "z"} :
                        boxes'[highlightedActor].scale[ax] = Num(ParseInt(t).v * HANZI_MODEL_SCALE)
                  /\ \A i \in DOMAIN boxes : i # highlightedActor => boxes'[i] = boxes[i]
       /\ (/\ highlightedActor = 0
           /\ \/ \E step \in {SCALE_STEP, -SCALE_STEP}, user \in Users : ScaleStepClick(step, user)
              \/ \E user \in Users : ScaleEditClick(user)
              \/ \E q \in prompts, t \in ScaleTexts : ScaleResponse(q, TRUE, t))
              => UNCHANGED <<boxes, numberInputText>>]_vars

\* C22 witness: one entity was set to scale 2, another was increased by one step
OneSetToTwoOneIncreased ==
    \E i, j \in DOMAIN boxes :
        /\ boxes[i].scale = Uniform(Num(2 * HANZI_MODEL_SCALE))
        /\ boxes[j].scale = Uniform(Num(HANZI_MODEL_SCALE + SCALE_STEP))
        /\ highlightedActor = j

DeleteCol == IndexOf(COMMON_HANZI_MENU_CONTROL_ITEMS, "Delete")

\* C23: Delete on a live entity takes it out of the tracked set and destroys its visual model
\* and its box, leaving every other entity alone; Delete on an entity that was already
\* deleted changes nothing
DeleteIsIdempotent ==
    [][\A user \in Users :
          (InDatasetScene /\ highlightedActor # 0 /\ HanziControlClick(DeleteCol, user)) =>
              IF highlightedActor \in spawnedHanzi
              THEN /\ spawnedHanzi' = spawnedHanzi \ {highlightedActor}
                   /\ boxes'[highlightedActor].destroyed
                   /\ boxes'[highlightedActor].actorDestroyed
                   /\ \A i \in DOMAIN boxes : i # highlightedActor => boxes'[i] = boxes[i]
                   /\ Len(boxes') = Len(boxes)
              ELSE UNCHANGED vars]_vars

\* C23 witness: the selected entity has been deleted while another one is still live, and
\* Delete can be clicked again
DeletedOneOfTwo ==
    /\ InDatasetScene /\ highlightedActor # 0
    /\ highlightedActor \notin spawnedHanzi
    /\ boxes[highlightedActor].destroyed /\ boxes[highlightedActor].actorDestroyed
    /\ \E i \in spawnedHanzi : ~boxes[i].destroyed

\* the writes of level files that are under way
Writes(io) == { w \in io : w.op = "write" }

\* C24: a submitted save of a name whose level file exists writes nothing and asks; a write
\* to an existing file is started only by a confirmed overwrite; a dismissed overwrite leaves
\* the stored levels as they were; a submitted save of a name with no level file starts the
\* write at once, without a question; and the stored levels change only when a write completes
OverwriteNeedsConfirmation ==
    [][/\ \A q \in prompts, name \in LevelNames :
              SaveResponse(q, TRUE, name) =>
                  IF \E f \in levels : f.path = SavePath(name)
                  THEN /\ UNCHANGED <<levels, pendingIO>>
                       /\ \E o \in prompts' : o.kind = "overwrite" /\ o.data.path = SavePath(name)
                  ELSE /\ \E w \in Writes(pendingIO') :
                             w.path = SavePath(name) /\ w.data = Serialize(LevelRefs, boxes)
                       /\ UNCHANGED levels
                       /\ \A o \in prompts' : o.kind # "overwrite"
       /\ \A q \in prompts : OverwriteResponse(q, FALSE) => UNCHANGED <<levels, pendingIO>>
       /\ \A w \in Writes(pendingIO') \ Writes(pendingIO) :
              (\E f \in levels : f.path = w.path) => \E q \in prompts : OverwriteResponse(q, TRUE)
       /\ levels' # levels => \E io \in pendingIO : WriteDone(io)]_vars

\* C24 witness: a save found its level file and asks, the entities having changed since the
\* file was written
OverwriteAsked ==
    \E q \in prompts, f \in levels :
        /\ q.kind = "overwrite" /\ q.data.path = f.path
        /\ f.data # Serialize(q.data.level, boxes)
        /\ pendingIO = {}

\* C25: loading a name whose level file does not exist tells the user "No such file" and does
\* nothing else: nothing is fetched or spawned, and the boxes, the tracked entities, the
\* cached models and dimensions, the selection and the stored levels stay as they were
NoSuchFileTakesNoAction ==
    [][\A q \in prompts, name \in LevelNames :
           (LoadResponse(q, TRUE, name) /\ ~ExistsSync(LoadPath(name))) =>
               /\ lastMsg' = "No such file"
               /\ UNCHANGED <<boxes, spawnedHanzi, tasks, fetches, prefabs, dimensions,
                              highlightedActor, pendingIO, levels>>]_vars

\* a failed load has been reported while an entity is selected and another level is stored
NoSuchFileReported ==
    /\ lastMsg = "No such file"
    /\ highlightedActor \in spawnedHanzi
    /\ levels # {}
    /\ pendingIO = {} /\ tasks = <<>>

\* C26: a confirmed "Clear level?" leaves no live entity: the tracked set is empty and every
\* placement box ever created, and its visual model, is destroyed
ClearLeavesNothing ==
    [][\A q \in prompts :
           ClearResponse(q, TRUE) =>
               /\ spawnedHanzi' = {}
               /\ Len(boxes') = Len(boxes)
               /\ \A i \in DOMAIN boxes' : boxes'[i].destroyed /\ boxes'[i].actorDestroyed]_vars

\* C26 witness: two entities are gone with nothing selected; Delete only removes the selected
\* entity and leaves it selected, so the level was cleared
ClearedTwo ==
    /\ Len(boxes) >= 2
    /\ highlightedActor = 0
    /\ spawnedHanzi = {}
    /\ \A i \in DOMAIN boxes : boxes[i].destroyed /\ boxes[i].actorDestroyed
    /\ levels # {}

\* C27: when the fetch or the load of a character's model fails, the spawn is abandoned: no
\* box and no model is created, the tracked set and the selection stay as they were
FailedSpawnAbandoned ==
    [][\A i \in DOMAIN tasks :
           (GetGltfFailed(i) \/ LoadGltfFailed(i)) =>
               UNCHANGED <<boxes, spawnedHanzi, highlightedActor>>]_vars

\* the boxes that were created and are not destroyed
LiveBoxes == { i \in DOMAIN boxes : ~boxes[i].destroyed }

\* data holds exactly one record per live box, with its character and its transform as written
OnePerLiveBox(data) ==
    /\ Len(data) = Cardinality(LiveBoxes)
    /\ \E f \in [DOMAIN data -> LiveBoxes] :
           /\ \A i, j \in DOMAIN data : i # j => f[i] # f[j]
           /\ \A i \in DOMAIN data :
                  /\ data[i].char = boxes[f[i]].char
                  /\ data[i].transform.pos = boxes[f[i]].pos
                  /\ data[i].transform.scale = [x |-> ToJSON(boxes[f[i]].scale.x),
                                                 y |-> ToJSON(boxes[f[i]].scale.y),
                                                 z |-> ToJSON(boxes[f[i]].scale.z)]

\* C28: the tracked set is always the set of boxes created and not destroyed, and the level
\* that a submitted save builds, written at once or kept for the overwrite question, has
\* exactly one record per tracked entity with its character and its current transform
SaveSerializesTrackedSet ==
    [][/\ spawnedHanzi' = { i \in DOMAIN boxes' : ~boxes'[i].destroyed }
       /\ \A q \in prompts, name \in LevelNames :
              SaveResponse(q, TRUE, name) =>
                  /\ spawnedHanzi = LiveBoxes
                  /\ IF ExistsSync(SavePath(name))
                     THEN \E o \in prompts' :
                              /\ o.kind = "overwrite" /\ o.data.path = SavePath(name)
                              /\ OnePerLiveBox(Serialize(o.data.level, boxes))
                     ELSE \E w \in Writes(pendingIO') :
                              w.path = SavePath(name) /\ OnePerLiveBox(w.data)]_vars

\* C28 witness: a level of one record is being written while one of two entities created is
\* destroyed and the other one, moved from where it was spawned, is tracked
SavedOneOfTwo ==
    /\ Len(boxes) = 2 /\ Cardinality(spawnedHanzi) = 1
    /\ \E w \in Writes(pendingIO) :
           /\ Len(w.data) = 1 /\ OnePerLiveBox(w.data)
           /\ w.data[1].transform.pos # DefaultTransform.pos

\* C29: a click on the home button or on a spawned entity by anyone but the owner changes
\* nothing: not the scene, the selection, a box's styling or the info panel, and no message
\* or prompt appears
NonOwnerClickIgnored ==
    [][\A user \in Users \ {OWNER_NAME} :
           (HomeClick(user) \/ \E id \in HighlightBoxes : EntityClick(id, user)) =>
               UNCHANGED vars]_vars

\* C29 witness: outside the main menu, with one entity selected and another one not, where an
\* owner's click on the home button or on either entity would change the scene or the selection
GuestCouldClick ==
    /\ Started /\ currentScene # "main_menu"
    /\ highlightedActor \in spawnedHanzi
    /\ boxes[highlightedActor].material = "boundingBox"
    /\ \E id \in spawnedHanzi : id # highlightedActor /\ boxes[id].material = "invisible"

\* C30: a submitted Search or Goto response that arrives outside the dataset scenes changes no
\* working list, no page cursor and not the page displayed; one that arrives in a dataset
\* scene leaves the other dataset's working list alone
StaleResponseRevalidated ==
    [][\A p \in prompts :
           /\ (~InDatasetScene /\ \/ \E t \in SearchTexts : SearchResponse(p, TRUE, t)
                                  \/ \E t \in GotoTexts : GotoResponse(p, TRUE, t))
                  => UNCHANGED <<characters, radicals, curPageNum, radicalPageNum, hanziPageNum,
                                 commonHanziCells>>
           /\ (InDatasetScene /\ \E t \in SearchTexts : SearchResponse(p, TRUE, t))
                  => (IF currentScene = "radical_menu"
                      THEN UNCHANGED characters ELSE UNCHANGED radicals)]_vars

\* C31: a submitted scale response sets the scale of the entity that is selected and live when
\* it arrives and of no other box; when nothing is selected, or the selected entity has been
\* deleted, it changes no box and not the scale input's text
ScaleResponseRevalidates ==
    [][\A q \in prompts, t \in ScaleTexts :
           ScaleResponse(q, TRUE, t) =>
               IF highlightedActor \in spawnedHanzi
               THEN /\ boxes'[highlightedActor].scale = Uniform(ScaledInt(t))
                    /\ \A i \in DOMAIN boxes : i # highlightedActor => boxes'[i] = boxes[i]
               ELSE UNCHANGED <<boxes, numberInputText>>]_vars

LoadedInOrder ==
    \A k \in DOMAIN boxes :
        boxes[k].char = StoredLevel[2].char =>
            \E m \in 1..(k - 1) : boxes[m].char = StoredLevel[1].char

\* C32: when dataset d was left at a valid page p and neither dataset has been entered, paged
\* or searched since (the main menu, the Pinyin and the Phonetics scenes may have been
\* visited), entering d again from the main menu shows page p and leaves the page remembered
\* for the other dataset as it was
PageSurvivesNavigation ==
    [][\A d \in DatasetScenes :
           (/\ currentScene = "main_menu" /\ trip[d].stage = "left"
            /\ MainMenuClick(IndexOf(MAIN_MENU_ITEMS,
                                     IF d = "radical_menu" THEN "Radicals" ELSE "Common")))
           => /\ curPageNum' = Num(trip[d].page)
              /\ IF d = "radical_menu" THEN UNCHANGED hanziPageNum ELSE UNCHANGED radicalPageNum]_vars

\* C35 as stated: an owner's click on a spawned entity while no dataset scene is current
\* changes neither the selection, nor the styling of any box, nor the Hanzi info panel
EntityClickNeedsDatasetScene ==
    [][\A id \in HighlightBoxes :
           (~InDatasetScene /\ EntityClick(id, OWNER_NAME))
               => UNCHANGED <<highlightedActor, boxes, hanziInfoPanel>>]_vars

\* C36 as stated: when a level saved under a name is in storage, a submitted load with the
\* same name fetches the file that the save wrote and reports no missing file
LoadFindsWhatSaveWrote ==
    [][\A q \in prompts, name \in LevelNames :
           (ExistsSync(SavePath(name)) /\ LoadResponse(q, TRUE, name))
               => /\ \E io \in pendingIO' : io.op = "fetch" /\ io.path = SavePath(name)
                  /\ UNCHANGED lastMsg]_vars

\* C37 as stated: the selected entity is none or an entity that is tracked and not destroyed
SelectionIsLive ==
    highlightedActor = 0
        \/ (highlightedActor \in spawnedHanzi /\ ~boxes[highlightedActor].destroyed)

\* C38 as stated: the keys of highlightBoxes are the visual models of exactly the boxes
\* that are keys of spawnedHanzi
TrackingMapsAgree == HighlightBoxes = spawnedHanzi

\* C39 as stated, at the step of clearLevel: a spawn that awaits its model load creates its
\* entity when the load completes, and a level fetch that awaits its result spawns the
\* level's records, so the clear covers them only if it leaves none of them waiting
ClearCoversSpawnsInFlight ==
    [][\A q \in prompts :
           ClearResponse(q, TRUE) =>
               /\ tasks' = <<>>
               /\ \A io \in pendingIO' : io.op # "fetch"]_vars

====
